---- MODULE Spec2Model ----
(***************************************************************************)
(* Invoice-aging ingestion, escalation-degree calculation, escalation      *)
(* batch orchestration and versioned e-mail templates of the collections   *)
(* backend (backend/app).                                                  *)
(*                                                                         *)
(* Amounts are integers counting thousandths of a currency unit, so that   *)
(* Decimal('0.01') is 10 and a DECIMAL(10,2) column stores multiples of 10.*)
(* Dates are day numbers.  Record ids (uuid4) are represented by the       *)
(* business key of the record they identify: an Account by its client_id,  *)
(* an Invoice by its invoice_number.                                        *)
(***************************************************************************)
EXTENDS Integers, Sequences, FiniteSets, TLC

VARIABLES
    \* ---- Aging Record Store (committed rows) and the import handler ----
    accounts,       \* set of [client_id, account_name]
    contacts,       \* set of [account_id, email, is_billing_contact]
    invoices,       \* set of [invoice_number, account_id, invoice_date, invoice_amount, total_outstanding]
    snapshots,      \* sequence (in creation order) of [invoice_id, snapshot_date, b]
    today,          \* date.today()
    lastCsv,        \* csv_content of the most recent import_csv_data call
    lastResult,     \* ImportResultSchema returned by that call
    lastDay,        \* date.today() during that call
    lastError,      \* what raised into the outer except clause of that call
    lastRaised,     \* whether that call raised to its caller
    importCount,    \* number of import_csv_data calls so far
    \* ---- Degree Calculator ----
    aging_snapshots,    \* argument of _calculate_escalation_degree
    degree_info,        \* EscalationDegreeInfo it returned, NoInfo before the call
    \* ---- Escalation Batch Orchestrator ----
    request,        \* EscalationRequest of the most recent process_escalation_batch call
    response,       \* EscalationBatchResponse it returned
    outbox,         \* send_email calls made during that call, with their outcome
    generated,      \* what generate_escalation_emails answered during that call
    dispatch,       \* _send_escalation_emails: its arguments, position and counters
    tasks,          \* the _send_single_email task of each escalation result
    \* ---- Template Store ----
    templates,      \* committed email_templates rows [identifier, version, data, is_active]
    tplLast,        \* the template request that finished last and how it ended
    sessions,       \* per database session: the request it runs and its open transaction
    started         \* number of requests handed to the sessions so far

storeVars == <<accounts, contacts, invoices, snapshots>>
importVars == <<accounts, contacts, invoices, snapshots, today, lastCsv, lastResult, lastDay,
                lastError, lastRaised, importCount>>
degreeVars == <<aging_snapshots, degree_info>>
batchVars == <<request, response, outbox, generated, dispatch, tasks>>
tplVars == <<templates, tplLast, sessions, started>>

(***************************************************************************)
(* Bounds                                                                  *)
(***************************************************************************)
MaxRows == 2        \* data rows per CSV text
MaxImports == 2     \* import_csv_data calls per behaviour
MaxDay == 2         \* days over which imports are spread
MaxSnaps == 2       \* aging snapshots handed to the degree calculator
MaxClients == 2     \* contact-ready clients per escalation request
MaxAiEmails == 2    \* e-mails in one answer of the text generator
MaxVersion == 3     \* highest template version number created
MaxSessions == 2    \* database sessions working on templates at once
MaxRequests == 3    \* template requests handed to concurrent sessions
MaxEmails == 3      \* escalation results handed to a dispatch that may retry

(***************************************************************************)
(* Program constants                                                       *)
(***************************************************************************)
Tolerance == 10
\* DECIMAL(10,2) holds |v| < 10^8 units.  10^11 thousandths exceed the
\* integers of the checker, so every drawn amount at or above this value
\* stands for an amount the column cannot hold.
NumericOverflow == 2000000000
Malformed == -1     \* a numeric cell Decimal() cannot parse
NoDate == 0         \* a date cell strptime cannot parse
NoEmail == ""       \* empty or absent Email Address cell

Abs(x) == IF x < 0 THEN -x ELSE x

RECURSIVE SumSeq(_)
SumSeq(s) == IF s = <<>> THEN 0 ELSE Head(s) + SumSeq(Tail(s))

\* The bucket amounts of a list of snapshots, added up.
RECURSIVE BucketTotalOf(_)
BucketTotalOf(snaps) ==
    IF snaps = <<>> THEN 0 ELSE SumSeq(Head(snaps).b) + BucketTotalOf(Tail(snaps))

\* Value a DECIMAL(10,2) column keeps of a Decimal (PostgreSQL numeric
\* rounds half away from zero).
ToColumn(v) == ((v + 5) \div 10) * 10

FitsColumn(v) == ToColumn(v) < NumericOverflow

ColumnsOf(b) == [i \in 1..5 |-> ToColumn(b[i])]

(***************************************************************************)
(* CSV text.  A text is a sequence of data rows; a cell holds what the     *)
(* file holds: numeric cells are amounts or Malformed, the date cell is a  *)
(* day or NoDate, text cells are strings ("" when empty).                  *)
(***************************************************************************)
AllClientIds == {"C1", "C2"}
AllInvoiceNumbers == {"INV-1", "INV-2"}

RawRow(cid, name, email, inv, d, amt, out, b) ==
    [client_id |-> cid, account_name |-> name, email |-> email,
     invoice_number |-> inv, invoice_date |-> d,
     invoice_amount |-> amt, total_outstanding |-> out, b |-> b]

\* _parse_csv_content: TRUE when Decimal() raises decimal.InvalidOperation,
\* which the handler's except (ValueError, TypeError) does not catch.
ParseRaises(text) ==
    \E k \in 1..Len(text) :
        \/ text[k].invoice_amount = Malformed
        \/ text[k].total_outstanding = Malformed
        \/ \E i \in 1..5 : text[k].b[i] = Malformed

\* _parse_csv_content: rows lacking client_id or invoice_number are dropped.
ParseCsvContent(text) ==
    LET Keep(r) == r.client_id # "" /\ r.invoice_number # ""
    IN SelectSeq(text, Keep)

(***************************************************************************)
(* CSVRowSchema                                                            *)
(***************************************************************************)
SchemaFields ==
    <<"client_id", "account_name", "email", "invoice_number", "invoice_date",
      "invoice_amount", "total_outstanding",
      "days_0_30", "days_31_60", "days_61_90", "days_91_120", "days_over_120">>

AgingFieldPos == 8..12

\* The `values` dict pydantic hands to a validator of field k: the fields
\* declared, and validated, before k.
ValuesSeenBy(k) == {SchemaFields[j] : j \in 1..(k - 1)}

validate_aging_totals(k, row) ==
    IF ({SchemaFields[j] : j \in AgingFieldPos} \cup {"total_outstanding"})
            \subseteq ValuesSeenBy(k)
    THEN Abs(SumSeq(row.b) - row.total_outstanding) <= Tolerance
    ELSE TRUE

\* Faulty variant: the validator is missing.
validate_outstanding_amount_Missing(row) == TRUE

validate_outstanding_amount(row) ==
    row.total_outstanding <= row.invoice_amount

ValidEmail(e) == e \in {NoEmail, "ap@c1.test", "ap@c2.test"}

\* CSVRowSchema(**row_data) succeeds.
CSVRowSchema(row) ==
    /\ row.account_name # ""
    /\ ValidEmail(row.email)
    /\ row.invoice_date # NoDate
    /\ row.invoice_amount >= 0
    /\ row.total_outstanding >= 0
    /\ validate_outstanding_amount(row)
    /\ \A i \in 1..5 : row.b[i] >= 0
    /\ \A k \in AgingFieldPos : validate_aging_totals(k, row)

(***************************************************************************)
(* Repositories, on the rows the session sees (w).                         *)
(***************************************************************************)
get_by_client_id(w, cid) == {a \in w.accounts : a.client_id = cid}

get_by_invoice_number(w, num) == {i \in w.invoices : i.invoice_number = num}

SnapshotsOf(snaps, invId) == {k \in 1..Len(snaps) : snaps[k].invoice_id = invId}

\* get_latest_snapshot_by_invoice: ORDER BY snapshot_date DESC LIMIT 1.
\* Rows tied on snapshot_date come back in an order the database chooses,
\* so the result is any of them.
get_latest_snapshot_by_invoice(snaps, invId) ==
    {k \in SnapshotsOf(snaps, invId) :
        \A j \in SnapshotsOf(snaps, invId) :
            snaps[j].snapshot_date <= snaps[k].snapshot_date}

_aging_values_changed(existing, b) == \E i \in 1..5 : existing.b[i] # b[i]

\* Faulty variant: only invoice_amount is compared.
_invoice_values_changed_AmountOnly(existing, row) ==
    existing.invoice_amount # row.invoice_amount

_invoice_values_changed(existing, row) ==
    \/ existing.invoice_amount # row.invoice_amount
    \/ existing.total_outstanding # row.total_outstanding

(***************************************************************************)
(* The session of one import_csv_data call.  w holds the rows the session  *)
(* sees (committed rows plus its own flushed writes, with the Decimal      *)
(* values its objects carry), the committed rows a rollback returns to     *)
(* (base), the account cache, and ImportStatsSchema.                       *)
(*                                                                         *)
(* cache[c] is the state of the Account object cached for client_id c:     *)
(* "new" (created by this transaction), "loaded" (read from the store),    *)
(* "ghost" (created by a transaction since rolled back: a transient object *)
(* whose id no stored row carries), "expired" (loaded, then expired by a   *)
(* rollback: reading account.id needs a refresh the async session cannot   *)
(* perform outside a greenlet, and raises).                                *)
(***************************************************************************)
NewSession(accs, cons, invs, snaps) ==
    [accounts |-> accs, contacts |-> cons, invoices |-> invs, snapshots |-> snaps,
     base |-> [accounts |-> accs, contacts |-> cons, invoices |-> invs, snapshots |-> snaps],
     cache |-> [c \in AllClientIds |-> "absent"],
     accounts_found |-> 0, accounts_created |-> 0, contacts_created |-> 0,
     invoices_found |-> 0, invoices_created |-> 0, invoices_updated |-> 0,
     aging_snapshots_created |-> 0, created_aging_snapshots |-> <<>>,
     validation_errors |-> 0, database_errors |-> 0,
     errors |-> <<>>, successful_rows |-> 0]

\* session.rollback(): every flushed write of the batch so far is undone.
Rollback(w) ==
    [w EXCEPT !.accounts = w.base.accounts, !.contacts = w.base.contacts,
              !.invoices = w.base.invoices, !.snapshots = w.base.snapshots,
              !.cache = [c \in AllClientIds |->
                            CASE w.cache[c] = "new" -> "ghost"
                              [] w.cache[c] = "loaded" -> "expired"
                              [] OTHER -> w.cache[c]]]

\* The except clauses of _process_csv_row.
RowRaises(w) == [Rollback(w) EXCEPT !.database_errors = @ + 1]

\* The except clause of the row loop of import_csv_data.
RowError(w, n) ==
    [w EXCEPT !.errors = Append(@, n), !.validation_errors = @ + 1]

\* Faulty variant: an account found in the store takes the row's name.
HandleAccount_TakesRowName(w, row) ==
    LET cid == row.client_id
    IN IF w.cache[cid] # "absent"
       THEN [w |-> [w EXCEPT !.accounts_found = @ + 1],
             raised |-> w.cache[cid] = "expired"]
       ELSE IF get_by_client_id(w, cid) = {}
            THEN [w |-> [w EXCEPT
                     !.accounts = @ \cup {[client_id |-> cid,
                                           account_name |-> row.account_name]},
                     !.contacts = @ \cup {[account_id |-> cid, email |-> row.email,
                                           is_billing_contact |-> TRUE]},
                     !.accounts_created = @ + 1,
                     !.contacts_created = @ + 1,
                     !.cache = [c \in AllClientIds |-> IF c = cid THEN "new" ELSE w.cache[c]]],
                  raised |-> FALSE]
            ELSE [w |-> [w EXCEPT
                     !.accounts = (@ \ get_by_client_id(w, cid))
                                    \cup {[client_id |-> cid, account_name |-> row.account_name]},
                     !.cache = [c \in AllClientIds |-> IF c = cid THEN "loaded" ELSE w.cache[c]],
                     !.accounts_found = @ + 1],
                  raised |-> FALSE]

\* _process_csv_row, 1. Handle Account.
HandleAccount(w, row) ==
    LET cid == row.client_id
    IN IF w.cache[cid] # "absent"
       THEN [w |-> [w EXCEPT !.accounts_found = @ + 1],
             raised |-> w.cache[cid] = "expired"]
       ELSE IF get_by_client_id(w, cid) = {}
            THEN [w |-> [w EXCEPT
                     !.accounts = @ \cup {[client_id |-> cid,
                                           account_name |-> row.account_name]},
                     !.contacts = @ \cup {[account_id |-> cid, email |-> row.email,
                                           is_billing_contact |-> TRUE]},
                     !.accounts_created = @ + 1,
                     !.contacts_created = @ + 1,
                     !.cache = [c \in AllClientIds |-> IF c = cid THEN "new" ELSE w.cache[c]]],
                  raised |-> FALSE]
            ELSE [w |-> [w EXCEPT !.cache = [c \in AllClientIds |-> IF c = cid THEN "loaded" ELSE w.cache[c]],
                                  !.accounts_found = @ + 1],
                  raised |-> FALSE]

\* _process_csv_row, 2. Handle Invoice.  A flush raises when the invoice
\* references an account id no row carries or an amount overflows its column.
HandleInvoice(w, row) ==
    LET found == get_by_invoice_number(w, row.invoice_number)
        fits == FitsColumn(row.invoice_amount) /\ FitsColumn(row.total_outstanding)
    IN IF found = {}
       THEN IF get_by_client_id(w, row.client_id) = {} \/ ~fits
            THEN [w |-> w, raised |-> TRUE]
            ELSE [w |-> [w EXCEPT
                     !.invoices = @ \cup {[invoice_number |-> row.invoice_number,
                                           account_id |-> row.client_id,
                                           invoice_date |-> row.invoice_date,
                                           invoice_amount |-> row.invoice_amount,
                                           total_outstanding |-> row.total_outstanding]},
                     !.invoices_created = @ + 1],
                  raised |-> FALSE]
       ELSE LET inv == CHOOSE i \in found : TRUE
            IN IF _invoice_values_changed(inv, row)
               THEN IF ~fits
                    THEN [w |-> w, raised |-> TRUE]
                    ELSE [w |-> [w EXCEPT
                             !.invoices = (@ \ {inv}) \cup
                                 {[inv EXCEPT !.invoice_amount = row.invoice_amount,
                                              !.total_outstanding = row.total_outstanding]},
                             !.invoices_updated = @ + 1],
                          raised |-> FALSE]
               ELSE [w |-> [w EXCEPT !.invoices_found = @ + 1], raised |-> FALSE]

\* create_snapshot and the bookkeeping that follows it.
CreateSnapshot(w, row) ==
    IF \E i \in 1..5 : ~FitsColumn(row.b[i])
    THEN [w |-> w, raised |-> TRUE]
    ELSE [w |-> [w EXCEPT
             !.snapshots = Append(@, [invoice_id |-> row.invoice_number,
                                      snapshot_date |-> row.snapshot_date,
                                      b |-> row.b]),
             !.aging_snapshots_created = @ + 1,
             !.created_aging_snapshots =
                 Append(@, [account_id |-> row.client_id,
                            invoice_number |-> row.invoice_number,
                            invoice_date |-> row.invoice_date,
                            total_outstanding |-> row.total_outstanding,
                            snapshot_date |-> row.snapshot_date,
                            b |-> row.b])],
          raised |-> FALSE]

\* _process_csv_row, 3. Handle Aging Snapshot: one outcome per snapshot the
\* latest-snapshot query may return.
HandleSnapshot(w, row) ==
    LET latest == get_latest_snapshot_by_invoice(w.snapshots, row.invoice_number)
    IN IF latest = {}
       THEN {CreateSnapshot(w, row)}
       ELSE {IF _aging_values_changed(w.snapshots[k], row.b)
             THEN CreateSnapshot(w, row)
             ELSE [w |-> w, raised |-> FALSE] : k \in latest}

\* _compute_missing_fields: snapshot_date is date.today().
_compute_missing_fields(raw, day) ==
    [client_id |-> raw.client_id, account_name |-> raw.account_name,
     email |-> raw.email, invoice_number |-> raw.invoice_number,
     invoice_date |-> raw.invoice_date, invoice_amount |-> raw.invoice_amount,
     total_outstanding |-> raw.total_outstanding, b |-> raw.b,
     snapshot_date |-> day]

\* One iteration of the row loop of import_csv_data.
_process_csv_row(w, raw, n, day) ==
    LET row == _compute_missing_fields(raw, day)
    IN IF ~CSVRowSchema(row)
       THEN {RowError(w, n)}
       ELSE LET a == HandleAccount(w, row)
            IN IF a.raised
               THEN {RowError(RowRaises(a.w), n)}
               ELSE LET i == HandleInvoice(a.w, row)
                    IN IF i.raised
                       THEN {RowError(RowRaises(i.w), n)}
                       ELSE {IF s.raised
                             THEN RowError(RowRaises(s.w), n)
                             ELSE [s.w EXCEPT !.successful_rows = @ + 1]
                                : s \in HandleSnapshot(i.w, row)}

\* The row loop: the sessions it can end in.
RECURSIVE ProcessRows(_, _, _, _)
ProcessRows(w, rows, n, day) ==
    IF n > Len(rows)
    THEN {w}
    ELSE UNION {ProcessRows(v, rows, n + 1, day) : v \in _process_csv_row(w, rows[n], n, day)}

\* session.commit(): what the columns keep of the session's rows.
CommitInvoices(invs) ==
    {[i EXCEPT !.invoice_amount = ToColumn(@), !.total_outstanding = ToColumn(@)] : i \in invs}

CommitSnapshots(snaps) ==
    [k \in 1..Len(snaps) |-> [snaps[k] EXCEPT !.b = ColumnsOf(@)]]

(***************************************************************************)
(* _build_contact_ready_clients                                            *)
(***************************************************************************)
\* The primary contact: the first billing contact, else the first contact,
\* else none (shown as a contact without email).  `first` is in the order
\* the relationship loads, so any candidate.
PrimaryContacts(cons, accountId) ==
    LET mine == {c \in cons : c.account_id = accountId}
        billing == {c \in mine : c.is_billing_contact}
    IN IF mine = {}
       THEN {[account_id |-> accountId, email |-> NoEmail, is_billing_contact |-> FALSE]}
       ELSE IF billing # {} THEN billing ELSE mine

\* Faulty variant: do-not-contact only when every snapshot is fresh.
_calculate_dnc_status_AllFresh(contact, snaps) ==
    \/ contact.email = NoEmail
    \/ \A k \in 1..Len(snaps) :
          /\ snaps[k].b[1] > 0
          /\ \A i \in 2..5 : snaps[k].b[i] = 0

_calculate_dnc_status(contact, snaps) ==
    \/ contact.email = NoEmail
    \/ \E k \in 1..Len(snaps) :
          /\ snaps[k].b[1] > 0
          /\ \A i \in 2..5 : snaps[k].b[i] = 0

AgingSnapshotSummary(d) ==
    [invoice_number |-> d.invoice_number, invoice_date |-> d.invoice_date,
     snapshot_date |-> d.snapshot_date, b |-> d.b]

ContactReadyClient(account, contact, created) ==
    LET Mine(d) == d.account_id = account.client_id
        mine == SelectSeq(created, Mine)
        summaries == [k \in 1..Len(mine) |-> AgingSnapshotSummary(mine[k])]
    IN [client_id |-> account.client_id,
        account_name |-> account.account_name,
        email_address |-> contact.email,
        invoice_aging_snapshots |-> summaries,
        total_outstanding_across_invoices |->
            SumSeq([k \in 1..Len(mine) |-> mine[k].total_outstanding]),
        dnc_status |-> _calculate_dnc_status(contact, summaries)]

\* The orders in which get_multiple_by_ids_with_contacts may return a set
\* of accounts (the query has no ORDER BY).
Orderings(S) ==
    {p \in [1..Cardinality(S) -> S] : \A i, j \in 1..Cardinality(S) : p[i] = p[j] => i = j}

\* One primary contact per account.
PickPrimary(cons, found) ==
    LET ids == {a.client_id : a \in found}
    IN {f \in [ids -> UNION {PrimaryContacts(cons, c) : c \in ids}] :
            \A c \in ids : f[c] \in PrimaryContacts(cons, c)}

\* The lists _build_contact_ready_clients can return.
_build_contact_ready_clients(accs, cons, created) ==
    LET ids == {created[k].account_id : k \in 1..Len(created)}
        found == {a \in accs : a.client_id \in ids}
    IN IF created = <<>>
       THEN {<<>>}
       ELSE {[k \in 1..Len(op[1]) |->
                 ContactReadyClient(op[1][k], op[2][op[1][k].client_id], created)]
             : op \in Orderings(found) \X PickPrimary(cons, found)}

(***************************************************************************)
(* import_csv_data                                                         *)
(***************************************************************************)
\* The result the outer except clause constructs.
ImportFailed ==
    [success |-> FALSE, total_rows |-> 0, successful_rows |-> 0, failed_rows |-> 1,
     accounts_created |-> 0, contacts_created |-> 0, invoices_created |-> 0,
     invoices_updated |-> 0, aging_snapshots_created |-> 0,
     contact_ready_clients |-> <<>>, errors |-> <<0>>]

ImportResultSchema(w, total, crc) ==
    [success |-> w.errors = <<>>, total_rows |-> total,
     successful_rows |-> w.successful_rows, failed_rows |-> Len(w.errors),
     accounts_created |-> w.accounts_created, contacts_created |-> w.contacts_created,
     invoices_created |-> w.invoices_created, invoices_updated |-> w.invoices_updated,
     aging_snapshots_created |-> w.aging_snapshots_created,
     contact_ready_clients |-> crc, errors |-> w.errors]

NoResult ==
    [success |-> TRUE, total_rows |-> 0, successful_rows |-> 0, failed_rows |-> 0,
     accounts_created |-> 0, contacts_created |-> 0, invoices_created |-> 0,
     invoices_updated |-> 0, aging_snapshots_created |-> 0,
     contact_ready_clients |-> <<>>, errors |-> <<>>]

\* ImportResultSchema.validate_row_counts, the validator of successful_rows
\* and failed_rows: TRUE when the value passes.
validate_row_counts(v, total_rows) == ~(v < 0 \/ v > total_rows)

\* Constructing the ImportResultSchema r succeeds.
ResultAccepted(r) ==
    /\ validate_row_counts(r.successful_rows, r.total_rows)
    /\ validate_row_counts(r.failed_rows, r.total_rows)

\* `return ImportResultSchema(...)`: the call returns r, or raises the
\* ValidationError of the constructor and returns nothing.
Return(r) ==
    /\ lastResult' = IF ResultAccepted(r) THEN r ELSE NoResult
    /\ lastRaised' = ~ResultAccepted(r)

\* The outer except clause: rollback, then the failure result.
ImportFails(cause) ==
    /\ UNCHANGED storeVars
    /\ lastError' = cause
    /\ Return(ImportFailed)

\* import_csv_data(csv_content), each call on a session of its own.  The
\* final commit ends the transaction or raises (connection lost).
import_csv_data(text) ==
    /\ importCount < MaxImports
    /\ importCount' = importCount + 1
    /\ lastCsv' = text
    /\ lastDay' = today
    /\ UNCHANGED <<today, degreeVars, batchVars, tplVars>>
    /\ IF ParseRaises(text)
       THEN ImportFails("parse")
       ELSE LET rows == ParseCsvContent(text)
            IN \/ \E fin \in ProcessRows(NewSession(accounts, contacts, invoices, snapshots),
                                       rows, 1, today) :
                    /\ accounts' = fin.accounts
                    /\ contacts' = fin.contacts
                    /\ invoices' = CommitInvoices(fin.invoices)
                    /\ snapshots' = CommitSnapshots(fin.snapshots)
                    /\ lastError' = "none"
                    /\ \E crc \in _build_contact_ready_clients(
                                     fin.accounts, fin.contacts, fin.created_aging_snapshots) :
                           Return(ImportResultSchema(fin, Len(rows), crc))
               \/ ImportFails("commit")

\* Midnight passes.
NextDay ==
    /\ today < MaxDay
    /\ today' = today + 1
    /\ UNCHANGED <<accounts, contacts, invoices, snapshots, lastCsv, lastResult, lastDay,
                   lastError, lastRaised, importCount, degreeVars, batchVars, tplVars>>

(***************************************************************************)
(* Degree Calculator (services/escalation_service.py)                      *)
(***************************************************************************)
\* EscalationService._get_invoice_degree: b[2..5] are days_31_60,
\* days_61_90, days_91_120, days_over_120.
\* Faulty variant: the buckets are tested youngest first.
_get_invoice_degree_YoungestFirst(snapshot) ==
    IF snapshot.b[2] > 0 THEN 1
    ELSE IF snapshot.b[3] > 0 THEN 2
    ELSE IF snapshot.b[4] > 0 \/ snapshot.b[5] > 0 THEN 3
    ELSE 0

_get_invoice_degree(snapshot) ==
    IF snapshot.b[4] > 0 \/ snapshot.b[5] > 0 THEN 3
    ELSE IF snapshot.b[3] > 0 THEN 2
    ELSE IF snapshot.b[2] > 0 THEN 1
    ELSE 0

\* degree_info before the call.
NoInfo == [degree |-> -1]

\* The locals of _calculate_escalation_degree before its loop.
DegreeLocals == [max_degree |-> 0, qualifying_invoices |-> <<>>, total_amount |-> 0]

\* Faulty variant: degree-0 invoices are listed and summed like the others.
DegreeLoopBody_KeepsDegreeZero(acc, snapshot) ==
    LET invoice_degree == _get_invoice_degree(snapshot)
    IN [max_degree |-> IF invoice_degree > acc.max_degree
                       THEN invoice_degree ELSE acc.max_degree,
        qualifying_invoices |-> Append(acc.qualifying_invoices, snapshot.invoice_number),
        total_amount |-> acc.total_amount + SumSeq(snapshot.b)]

\* Faulty variant: an invoice is listed and summed only when it raises the
\* running maximum, and the invoices listed so far are dropped when it does.
DegreeLoopBody_HighestOnly(acc, snapshot) ==
    LET invoice_degree == _get_invoice_degree(snapshot)
    IN IF invoice_degree > acc.max_degree
       THEN [max_degree |-> invoice_degree,
             qualifying_invoices |-> <<snapshot.invoice_number>>,
             total_amount |-> SumSeq(snapshot.b)]
       ELSE IF invoice_degree > 0 /\ invoice_degree = acc.max_degree
       THEN [acc EXCEPT !.qualifying_invoices = Append(@, snapshot.invoice_number),
                        !.total_amount = @ + SumSeq(snapshot.b)]
       ELSE acc

\* One pass of the loop over aging_snapshots.
DegreeLoopBody(acc, snapshot) ==
    LET invoice_degree == _get_invoice_degree(snapshot)
        listed == invoice_degree > 0
    IN [max_degree |-> IF invoice_degree > acc.max_degree
                       THEN invoice_degree ELSE acc.max_degree,
        qualifying_invoices |-> IF listed
                                THEN Append(acc.qualifying_invoices, snapshot.invoice_number)
                                ELSE acc.qualifying_invoices,
        total_amount |-> IF listed
                         THEN acc.total_amount + SumSeq(snapshot.b)
                         ELSE acc.total_amount]

RECURSIVE DegreeLoop(_, _)
DegreeLoop(acc, rest) ==
    IF rest = <<>> THEN acc
    ELSE DegreeLoop(DegreeLoopBody(acc, Head(rest)), Tail(rest))

DegreeReason(max_degree) ==
    CASE max_degree = 1 -> "Invoices in 31-60 days aging bucket"
      [] max_degree = 2 -> "Invoices in 61-90 days aging bucket"
      [] max_degree = 3 -> "Invoices in 91-120+ days aging buckets"
      [] OTHER -> "No escalation needed (all invoices 0-30 days)"

_calculate_escalation_degree(snaps) ==
    LET fin == DegreeLoop(DegreeLocals, snaps)
    IN [degree |-> fin.max_degree,
        reason |-> DegreeReason(fin.max_degree),
        qualifying_invoices |-> fin.qualifying_invoices,
        total_amount |-> fin.total_amount]

\* A call of _calculate_escalation_degree.
CalculateDegree ==
    /\ degree_info = NoInfo
    /\ degree_info' = _calculate_escalation_degree(aging_snapshots)
    /\ UNCHANGED <<aging_snapshots, importVars, batchVars, tplVars>>

(***************************************************************************)
(* Template Store (repositories/email_template.py,                         *)
(* services/email_template_service.py)                                     *)
(***************************************************************************)
TemplateIds == {"ESCALATION_LEVEL_1", "PAYMENT_REMINDER"}
TemplateData == {"reminder", "oversized"}

\* _validate_and_sanitize_template_data raises ValueError.
DataRejected(data) == data = "oversized"

EmailTemplate(identifier, version, data, is_active) ==
    [identifier |-> identifier, version |-> version, data |-> data, is_active |-> is_active]

MaxOf(S) == CHOOSE x \in S : \A y \in S : y <= x

get_versions_by_identifier(rows, identifier) == {t \in rows : t.identifier = identifier}

\* The rows scalars().first() may return.
get_latest_version(rows, identifier) ==
    {t \in rows : t.identifier = identifier /\ t.is_active}

get_by_identifier_and_version(rows, identifier, version) ==
    {t \in rows : t.identifier = identifier /\ t.version = version}

get_all_latest_versions(rows) == {t \in rows : t.is_active}

\* Faulty variant: the highest active version counts, not the highest version.
get_next_version_number_FromActive(rows, identifier) ==
    IF get_latest_version(rows, identifier) = {} THEN 1
    ELSE MaxOf({t.version : t \in get_latest_version(rows, identifier)}) + 1

get_next_version_number(rows, identifier) ==
    IF get_versions_by_identifier(rows, identifier) = {} THEN 1
    ELSE MaxOf({t.version : t \in get_versions_by_identifier(rows, identifier)}) + 1

\* UPDATE email_templates SET is_active = false WHERE identifier = :identifier,
\* on the rows of the identifier whose versions are in hit.
Deactivate(rows, identifier, hit) ==
    {IF t.identifier = identifier /\ t.version \in hit
     THEN EmailTemplate(t.identifier, t.version, t.data, FALSE) ELSE t : t \in rows}

\* target_template.is_active = True; flush.
SetActive(rows, identifier, version) ==
    {IF t.identifier = identifier /\ t.version = version
     THEN EmailTemplate(t.identifier, t.version, t.data, TRUE) ELSE t : t \in rows}

AllVersions(rows, identifier) ==
    {t.version : t \in get_versions_by_identifier(rows, identifier)}

\* Faulty variant: the new version is added and the others stay as they are.
create_new_version_KeepsOthersActive(rows, identifier, data) ==
    rows \cup {EmailTemplate(identifier, get_next_version_number(rows, identifier), data, TRUE)}

\* EmailTemplateRepository.create_new_version on one session, start to flush.
create_new_version(rows, identifier, data) ==
    LET off == Deactivate(rows, identifier, AllVersions(rows, identifier))
    IN off \cup {EmailTemplate(identifier, get_next_version_number(off, identifier), data, TRUE)}

\* EmailTemplateRepository.activate_version once the target row was found.
repo_activate_version(rows, identifier, version) ==
    SetActive(Deactivate(rows, identifier, AllVersions(rows, identifier)), identifier, version)

\* How a request ended: ok is FALSE when the method raised or returned
\* nothing; version is the version of the template it returned and
\* previous_version the active version it found at its start (0 for none).
TplDone(op, identifier, version, previous_version, ok) ==
    [op |-> op, identifier |-> identifier, version |-> version,
     previous_version |-> previous_version, ok |-> ok]

TplFailed(op, identifier) == TplDone(op, identifier, 0, 0, FALSE)

NoRequest == TplFailed("none", "")

\* The version scalars().first() may give for the active row, 0 for None.
ActiveVersions(rows, identifier) ==
    IF get_latest_version(rows, identifier) = {} THEN {0}
    ELSE {t.version : t \in get_latest_version(rows, identifier)}

\* ---- the service methods, each call running alone ----
create_template(identifier, data) ==
    /\ get_next_version_number(templates, identifier) <= MaxVersion
    /\ IF DataRejected(data)
       THEN /\ templates' = templates
            /\ tplLast' = TplFailed("create_template", identifier)
       ELSE IF get_latest_version(templates, identifier) # {}
       THEN /\ templates' = create_new_version(templates, identifier, data)
            /\ \E previous \in ActiveVersions(templates, identifier) :
                  tplLast' = TplDone("create_template", identifier,
                                     get_next_version_number(templates, identifier),
                                     previous, TRUE)
       ELSE IF get_by_identifier_and_version(templates, identifier, 1) # {}
       THEN \* IntegrityError on uq_email_template_identifier_version
            /\ templates' = templates
            /\ tplLast' = TplFailed("create_template", identifier)
       ELSE /\ templates' = templates \cup {EmailTemplate(identifier, 1, data, TRUE)}
            /\ tplLast' = TplDone("create_template", identifier, 1, 0, TRUE)
    /\ UNCHANGED <<sessions, started, importVars, degreeVars, batchVars>>

update_template(identifier, data) ==
    /\ get_next_version_number(templates, identifier) <= MaxVersion
    /\ IF get_latest_version(templates, identifier) = {} \/ DataRejected(data)
       THEN /\ templates' = templates
            /\ tplLast' = TplFailed("update_template", identifier)
       ELSE /\ templates' = create_new_version(templates, identifier, data)
            /\ \E previous \in ActiveVersions(templates, identifier) :
                  tplLast' = TplDone("update_template", identifier,
                                     get_next_version_number(templates, identifier),
                                     previous, TRUE)
    /\ UNCHANGED <<sessions, started, importVars, degreeVars, batchVars>>

activate_version(identifier, version) ==
    /\ IF get_by_identifier_and_version(templates, identifier, version) = {}
       THEN /\ templates' = templates
            /\ tplLast' = TplFailed("activate_version", identifier)
       ELSE /\ templates' = repo_activate_version(templates, identifier, version)
            /\ \E previous \in ActiveVersions(templates, identifier) :
                  tplLast' = TplDone("activate_version", identifier, version, previous, TRUE)
    /\ UNCHANGED <<sessions, started, importVars, degreeVars, batchVars>>

delete_template(identifier) ==
    /\ IF get_versions_by_identifier(templates, identifier) = {}
       THEN /\ templates' = templates
            /\ tplLast' = TplFailed("delete_template", identifier)
       ELSE /\ templates' = templates \ get_versions_by_identifier(templates, identifier)
            /\ tplLast' = TplDone("delete_template", identifier, 0, 0, TRUE)
    /\ UNCHANGED <<sessions, started, importVars, degreeVars, batchVars>>

\* ---- the same methods statement by statement, one transaction per session,
\* ---- PostgreSQL READ COMMITTED ----
Sessions == 1..MaxSessions

\* targets: the rows the running UPDATE statement saw when it started;
\* deact, ins, act: the rows this transaction wrote and holds locked.
IdleSession ==
    [op |-> "none", identifier |-> "", version |-> 0, data |-> "", pc |-> "idle",
     previous_version |-> 0, targets |-> {}, deact |-> {}, ins |-> 0, act |-> 0]

Writes(x) == x.deact \cup ({x.ins, x.act} \ {0})

\* Another session's open transaction holds the row (identifier, version).
LockedByOther(s, identifier, version) ==
    \E o \in Sessions \ {s} :
        sessions[o].identifier = identifier /\ version \in Writes(sessions[o])

\* The committed rows with the writes of transaction x on top.
OwnWrites(rows, x) ==
    LET changed == SetActive(Deactivate(rows, x.identifier, x.deact), x.identifier, x.act)
    IN IF x.ins = 0 THEN changed
       ELSE changed \cup {EmailTemplate(x.identifier, x.ins, x.data, TRUE)}

InFlightInserts(identifier) ==
    Cardinality({o \in Sessions : /\ sessions[o].identifier = identifier
                                  /\ sessions[o].op \in {"create_template", "update_template"}})

Move(s, x) ==
    /\ sessions' = [sessions EXCEPT ![s] = x]
    /\ UNCHANGED <<templates, tplLast, started, importVars, degreeVars, batchVars>>

\* The method raises: rollback, the session is returned.
Raise(s) ==
    /\ sessions' = [sessions EXCEPT ![s] = IdleSession]
    /\ tplLast' = TplFailed(sessions[s].op, sessions[s].identifier)
    /\ UNCHANGED <<templates, started, importVars, degreeVars, batchVars>>

\* The requests sessions are handed.
TemplateRequests ==
    {[IdleSession EXCEPT !.op = op, !.identifier = identifier, !.data = data,
                         !.pc = IF op = "create_template" THEN "validate" ELSE "get_latest"] :
        op \in {"create_template", "update_template"},
        identifier \in TemplateIds, data \in TemplateData}
    \cup
    {[IdleSession EXCEPT !.op = "activate_version", !.identifier = identifier,
                         !.version = version, !.pc = "get_latest"] :
        identifier \in TemplateIds, version \in 1..MaxVersion}

TxBegin(s) ==
    /\ sessions[s].pc = "idle"
    /\ started < MaxRequests
    /\ \E x \in TemplateRequests :
          /\ x.op # "activate_version" =>
                get_next_version_number(templates, x.identifier)
                    + InFlightInserts(x.identifier) <= MaxVersion
          /\ sessions' = [sessions EXCEPT ![s] = x]
    /\ started' = started + 1
    /\ UNCHANGED <<templates, tplLast, importVars, degreeVars, batchVars>>

\* _validate_and_sanitize_template_data
TxValidate(s) ==
    LET x == sessions[s]
    IN /\ x.pc = "validate"
       /\ IF DataRejected(x.data) THEN Raise(s)
          ELSE Move(s, [x EXCEPT !.pc = IF x.op = "create_template"
                                        THEN "get_latest" ELSE "deactivate"])

\* existing_template = get_latest_version(identifier)
TxGetLatest(s) ==
    LET x == sessions[s]
    IN /\ x.pc = "get_latest"
       /\ \E previous \in ActiveVersions(templates, x.identifier) :
             LET y == [x EXCEPT !.previous_version = previous]
             IN CASE x.op = "create_template" ->
                       Move(s, [y EXCEPT !.pc = IF previous # 0 THEN "deactivate" ELSE "insert",
                                         !.version = IF previous # 0 THEN 0 ELSE 1])
                  [] x.op = "update_template" ->
                       IF previous # 0 THEN Move(s, [y EXCEPT !.pc = "validate"]) ELSE Raise(s)
                  [] OTHER -> Move(s, [y EXCEPT !.pc = "get_target"])

\* target_template = get_by_identifier_and_version(identifier, version)
TxGetTarget(s) ==
    LET x == sessions[s]
    IN /\ x.pc = "get_target"
       /\ IF get_by_identifier_and_version(templates, x.identifier, x.version) = {}
          THEN Raise(s)
          ELSE Move(s, [x EXCEPT !.pc = "deactivate"])

\* The UPDATE statement starts: it works on the rows committed by now.
TxDeactivateBegin(s) ==
    LET x == sessions[s]
    IN /\ x.pc = "deactivate"
       /\ Move(s, [x EXCEPT !.targets = AllVersions(templates, x.identifier),
                            !.pc = "deactivate_wait"])

\* The UPDATE statement ends once no other transaction holds one of its rows.
TxDeactivateFinish(s) ==
    LET x == sessions[s]
    IN /\ x.pc = "deactivate_wait"
       /\ \A v \in x.targets : ~LockedByOther(s, x.identifier, v)
       /\ Move(s, [x EXCEPT !.deact = x.targets,
                            !.pc = IF x.op = "activate_version"
                                   THEN "set_active" ELSE "next_version"])

\* next_version = get_next_version_number(identifier)
TxNextVersion(s) ==
    LET x == sessions[s]
    IN /\ x.pc = "next_version"
       /\ Move(s, [x EXCEPT !.version = get_next_version_number(templates, x.identifier),
                            !.pc = "insert"])

\* session.add(new_template); flush.  The unique index on (identifier,
\* version) waits for an uncommitted row with the same key and rejects a
\* committed one.
TxInsert(s) ==
    LET x == sessions[s]
    IN /\ x.pc = "insert"
       /\ ~LockedByOther(s, x.identifier, x.version)
       /\ IF get_by_identifier_and_version(templates, x.identifier, x.version) # {}
          THEN Raise(s)
          ELSE Move(s, [x EXCEPT !.ins = x.version, !.pc = "commit"])

\* target_template.is_active = True; flush.
TxSetActive(s) ==
    LET x == sessions[s]
    IN /\ x.pc = "set_active"
       /\ ~LockedByOther(s, x.identifier, x.version)
       /\ Move(s, [x EXCEPT !.act = x.version, !.pc = "commit"])

\* await self.session.commit()
TxCommit(s) ==
    LET x == sessions[s]
    IN /\ x.pc = "commit"
       /\ templates' = OwnWrites(templates, x)
       /\ tplLast' = TplDone(x.op, x.identifier, x.version, x.previous_version, TRUE)
       /\ sessions' = [sessions EXCEPT ![s] = IdleSession]
       /\ UNCHANGED <<started, importVars, degreeVars, batchVars>>

(***************************************************************************)
(* Escalation Batch Orchestrator (services/escalation_service.py)          *)
(***************************************************************************)
Reasons == {"dnc_status", "no_email", "no_invoices", "degree_0_no_escalation"}

NoReasons == [r \in Reasons |-> 0]

\* skip_reasons[reason] = skip_reasons.get(reason, 0) + 1
CountSkip(skip_reasons, reason) ==
    [r \in Reasons |-> IF r = reason THEN skip_reasons[r] + 1 ELSE skip_reasons[r]]

\* not contact.email_address or not contact.email_address.strip()
BlankEmail(e) == e = NoEmail \/ e = "  "

RECURSIVE FilterLoop(_, _, _)
FilterLoop(rest, valid_contacts, skip_reasons) ==
    IF rest = <<>>
    THEN [valid_contacts |-> valid_contacts, skip_reasons |-> skip_reasons]
    ELSE LET contact == Head(rest)
         IN IF contact.dnc_status
            THEN FilterLoop(Tail(rest), valid_contacts, CountSkip(skip_reasons, "dnc_status"))
            ELSE IF BlankEmail(contact.email_address)
            THEN FilterLoop(Tail(rest), valid_contacts, CountSkip(skip_reasons, "no_email"))
            ELSE IF contact.invoice_aging_snapshots = <<>>
            THEN FilterLoop(Tail(rest), valid_contacts, CountSkip(skip_reasons, "no_invoices"))
            ELSE FilterLoop(Tail(rest), Append(valid_contacts, contact), skip_reasons)

_filter_contacts(contacts_in) == FilterLoop(contacts_in, <<>>, NoReasons)

\* contact_dict of step 2.
ContactDict(contact, info) ==
    [client_id |-> contact.client_id, account_name |-> contact.account_name,
     email_address |-> contact.email_address,
     escalation_degree |-> info.degree, degree_info |-> info]

\* Step 2: the loop over valid_contacts.
RECURSIVE DegreeStep(_, _, _)
DegreeStep(rest, contact_data_with_degrees, skipped_reasons) ==
    IF rest = <<>>
    THEN [contact_data_with_degrees |-> contact_data_with_degrees,
          skipped_reasons |-> skipped_reasons]
    ELSE LET contact == Head(rest)
             info == _calculate_escalation_degree(contact.invoice_aging_snapshots)
         IN IF info.degree > 0
            THEN DegreeStep(Tail(rest),
                            Append(contact_data_with_degrees, ContactDict(contact, info)),
                            skipped_reasons)
            ELSE DegreeStep(Tail(rest), contact_data_with_degrees,
                            CountSkip(skipped_reasons, "degree_0_no_escalation"))

\* ESCALATION_LEVEL_ templates among the active versions.
IsEscalationTemplate(identifier) == identifier = "ESCALATION_LEVEL_1"

_get_escalation_templates(rows) ==
    {t.identifier : t \in {u \in get_all_latest_versions(rows) :
                               IsEscalationTemplate(u.identifier)}}

\* What the text generator may answer for contact_data: an HTTPException, or
\* up to MaxAiEmails well-formed e-mails that name an account of the batch
\* or another one, addressed to the account's contact or elsewhere.
AiEmail(account, email_address) == [account |-> account, email_address |-> email_address]

AiEntries(contact_data) ==
    UNION {{AiEmail(contact_data[k].account_name, contact_data[k].email_address),
            AiEmail(contact_data[k].account_name, "billing@elsewhere.test")} :
                k \in 1..Len(contact_data)}
    \cup {AiEmail("Unlisted Co", "billing@elsewhere.test")}

\* The ways generate_escalation_emails raises HTTPException: no API key
\* (503), a response status other than 200, a timeout (408), a text that is
\* not JSON or not a JSON array (500).
AiFailures == {"no_api_key", "status_not_200", "timeout", "unparseable"}

NotGenerated == [raised |-> "not called", emails |-> <<>>]

generate_escalation_emails(contact_data, email_templates) ==
    {[raised |-> cause, emails |-> <<>>] : cause \in AiFailures}
    \cup {[raised |-> "none", emails |-> e] :
            e \in UNION {[1..n -> AiEntries(contact_data)] : n \in 0..MaxAiEmails}}

\* Faulty variant: a timeout is answered with an empty list.
Raised_TimeoutSwallowed(ai) == ai.raised \notin {"none", "timeout"}

\* The call raised, which takes process_escalation_batch to its except clause.
Raised(ai) == ai.raised # "none"

\* next((c for c in contact_data_with_degrees if c['account_name'] == account), None):
\* its position, 0 for None.
OriginalContact(contact_data, account) ==
    LET hits == {k \in 1..Len(contact_data) : contact_data[k].account_name = account}
    IN IF hits = {} THEN 0 ELSE CHOOSE k \in hits : \A j \in hits : k <= j

TemplateUsed(degree) ==
    CASE degree = 1 -> "ESCALATION_LEVEL_1"
      [] degree = 2 -> "ESCALATION_LEVEL_2"
      [] OTHER -> "ESCALATION_LEVEL_3"

NoSendError == ""    \* email_send_error = None

\* str(response) of the HTTPException send_email raises
SendError == "500: Failed to send email"

EscalationResult(ai_email, original_contact) ==
    [account |-> ai_email.account,
     email_address |-> ai_email.email_address,
     escalation_degree |-> original_contact.escalation_degree,
     template_used |-> TemplateUsed(original_contact.escalation_degree),
     invoice_count |-> Len(original_contact.degree_info.qualifying_invoices),
     total_outstanding |-> original_contact.degree_info.total_amount,
     email_sent |-> FALSE,
     email_send_error |-> NoSendError]

\* Step 5: the loop over ai_generated_emails.
RECURSIVE ConvertAiResults(_, _)
ConvertAiResults(ai_generated_emails, contact_data) ==
    IF ai_generated_emails = <<>> THEN <<>>
    ELSE LET ai_email == Head(ai_generated_emails)
             k == OriginalContact(contact_data, ai_email.account)
         IN (IF k = 0 THEN <<>> ELSE <<EscalationResult(ai_email, contact_data[k])>>)
            \o ConvertAiResults(Tail(ai_generated_emails), contact_data)

\* Faulty variant: three attempts whatever the request says.
max_retries_AlwaysThree(retry_on_failure) == 3

\* max_retries = 3 if retry_on_failure else 1
max_retries(retry_on_failure) == IF retry_on_failure THEN 3 ELSE 1

\* _send_single_email as a whole: the outcomes of its send_email calls, in
\* order (TRUE: the call returned, FALSE: it raised).  The loop ends with the
\* first call that returns or with the last permitted call.
_send_single_email(retry_on_failure) ==
    {run \in UNION {[1..n -> BOOLEAN] : n \in 1..max_retries(retry_on_failure)} :
        /\ \A a \in 1..(Len(run) - 1) : ~run[a]
        /\ run[Len(run)] \/ Len(run) = max_retries(retry_on_failure)}

\* isinstance(response, Exception) is false for the k-th task.
Delivered(runs) == [k \in 1..Len(runs) |-> runs[k][Len(runs[k])]]

\* Faulty variant: a failure leaves the result as it was built.
MarkSent_FailureNotRecorded(escalation_results, delivered) ==
    [k \in 1..Len(escalation_results) |->
        [escalation_results[k] EXCEPT !.email_sent = delivered[k]]]

\* _send_escalation_emails: delivered[k] tells whether _send_single_email
\* returned for the k-th result or raised after its last attempt.
MarkSent(escalation_results, delivered) ==
    [k \in 1..Len(escalation_results) |->
        [escalation_results[k] EXCEPT
            !.email_sent = delivered[k],
            !.email_send_error = IF delivered[k] THEN NoSendError ELSE SendError]]

\* The send_email calls of the dispatch, those of one e-mail in order; result
\* is the position of the escalation result the call is made for.
RECURSIVE TransportCalls(_, _, _)
TransportCalls(escalation_results, runs, k) ==
    IF k > Len(escalation_results) THEN <<>>
    ELSE [a \in 1..Len(runs[k]) |->
             [to_email |-> escalation_results[k].email_address,
              account |-> escalation_results[k].account,
              result |-> k,
              ok |-> runs[k][a]]]
         \o TransportCalls(escalation_results, runs, k + 1)

\* Faulty variant: only a failed send is recorded.
EmailSendingDetails_FailuresOnly(escalation_results, delivered) ==
    SelectSeq([k \in 1..Len(escalation_results) |->
                  [account_name |-> escalation_results[k].account,
                   email_address |-> escalation_results[k].email_address,
                   email_sent |-> delivered[k]]],
              LAMBDA d : ~d.email_sent)

\* email_sending_details: the EmailSendingDetail appended for each response of
\* a sub-batch, in the order of the results.
EmailSendingDetails(escalation_results, delivered) ==
    [k \in 1..Len(escalation_results) |->
        [account_name |-> escalation_results[k].account,
         email_address |-> escalation_results[k].email_address,
         email_sent |-> delivered[k]]]

EmailSendingSummary(delivered) ==
    [total_attempts |-> Len(delivered),
     successful_sends |-> Cardinality({k \in 1..Len(delivered) : delivered[k]}),
     failed_sends |-> Cardinality({k \in 1..Len(delivered) : ~delivered[k]}),
     retry_attempts |-> 0]

NoSummary == [total_attempts |-> -1]

EscalationBatchResponse(success, req, escalation_results, skipped_reasons, errors, summary, details) ==
    [success |-> success,
     processed_count |-> Len(req.contact_ready_clients),
     emails_generated |-> Len(escalation_results),
     skipped_count |-> Len(req.contact_ready_clients) - Len(escalation_results),
     escalation_results |-> escalation_results,
     skipped_reasons |-> skipped_reasons,
     errors |-> errors,
     email_sending_summary |-> summary,
     email_sending_details |-> details]

NoResponse == [success |-> FALSE, errors |-> "no call"]

\* Faulty variant: preview_only is not looked at.
SendingRequested_IgnoresPreview(req) == req.send_emails

\* if not request.preview_only and request.send_emails
SendingRequested(req) == ~req.preview_only /\ req.send_emails

Respond(resp, sent) ==
    /\ response' = resp
    /\ outbox' = sent

process_escalation_batch(req) ==
    /\ request' = req
    /\ UNCHANGED <<dispatch, tasks, importVars, degreeVars, tplVars>>
    /\ LET filtered == _filter_contacts(req.contact_ready_clients)
           graded == DegreeStep(filtered.valid_contacts, <<>>, filtered.skip_reasons)
           contact_data == graded.contact_data_with_degrees
           email_templates == _get_escalation_templates(templates)
       IN IF filtered.valid_contacts = <<>>
          THEN /\ generated' = NotGenerated
               /\ Respond(EscalationBatchResponse(TRUE, req, <<>>, filtered.skip_reasons,
                           "No valid contacts found for escalation processing", NoSummary, <<>>), <<>>)
          ELSE IF contact_data = <<>>
          THEN /\ generated' = NotGenerated
               /\ Respond(EscalationBatchResponse(TRUE, req, <<>>, graded.skipped_reasons,
                           "No contacts require escalation (all are degree 0)", NoSummary, <<>>), <<>>)
          ELSE IF email_templates = {}
          THEN /\ generated' = NotGenerated
               /\ Respond(EscalationBatchResponse(FALSE, req, <<>>, graded.skipped_reasons,
                           "No escalation email templates found in database", NoSummary, <<>>), <<>>)
          ELSE \E ai \in generate_escalation_emails(contact_data, email_templates) :
               /\ generated' = ai
               /\ IF Raised(ai)
                 THEN Respond(EscalationBatchResponse(FALSE, req, <<>>, NoReasons,
                                  "Processing failed", NoSummary, <<>>), <<>>)
                 ELSE LET escalation_results == ConvertAiResults(ai.emails, contact_data)
                      IN IF SendingRequested(req)
                         THEN \E runs \in [1..Len(escalation_results) ->
                                             _send_single_email(req.retry_failed_emails)] :
                                Respond(EscalationBatchResponse(TRUE, req,
                                            MarkSent(escalation_results, Delivered(runs)),
                                            graded.skipped_reasons, "",
                                            EmailSendingSummary(Delivered(runs)),
                                            EmailSendingDetails(escalation_results, Delivered(runs))),
                                        TransportCalls(escalation_results, runs, 1))
                         ELSE Respond(EscalationBatchResponse(TRUE, req, escalation_results,
                                          graded.skipped_reasons, "", NoSummary, <<>>), <<>>)

(***************************************************************************)
(* Email dispatch (EscalationService._send_escalation_emails and           *)
(* _send_single_email), one step per await.  The tasks of a sub-batch run  *)
(* concurrently under asyncio.gather; a task gives up control at each      *)
(* send_email call.                                                        *)
(***************************************************************************)
SendCap == 10           \* min(request.email_batch_size, 10)
MaxBatchSize == 50      \* email_batch_size: le=50

Min(a, b) == IF a < b THEN a ELSE b

\* Faulty variant: the requested size is used as it is.
batch_size_Uncapped(req) == req.email_batch_size

\* batch_size = min(request.email_batch_size, 10)
batch_size(req) == Min(req.email_batch_size, SendCap)

\* A task before asyncio.gather creates it; log holds the outcomes of its
\* send_email calls so far, attempt is the loop variable of _send_single_email.
PendingTask == [pc |-> "pending", attempt |-> 0, log |-> <<>>]

NoDispatch ==
    [total_attempts |-> 0, email_batch_size |-> 1, retry_failed_emails |-> FALSE,
     i |-> 0, pc |-> "idle", successful_sends |-> 0, failed_sends |-> 0,
     retry_attempts |-> 0]

\* The state at the first line of the loop of _send_escalation_emails.
DispatchStart(n, size, retry) ==
    [NoDispatch EXCEPT !.total_attempts = n, !.email_batch_size = size,
                       !.retry_failed_emails = retry, !.pc = "loop"]

\* batch_results = escalation_results[i:i + batch_size], as positions.
BatchResults == {k \in 1..Len(tasks) : dispatch.i < k /\ k <= dispatch.i + batch_size(dispatch)}

Finished(t) == t.pc \in {"returned", "raised"}

\* for result in batch_results: batch_tasks.append(_send_single_email(...));
\* asyncio.gather(*batch_tasks) starts every task of the sub-batch.
GatherSubBatch ==
    /\ dispatch.pc = "loop"
    /\ dispatch.i < dispatch.total_attempts
    /\ tasks' = [k \in 1..Len(tasks) |->
                    IF k \in BatchResults THEN [tasks[k] EXCEPT !.pc = "running"]
                    ELSE tasks[k]]
    /\ dispatch' = [dispatch EXCEPT !.pc = "gather"]
    /\ UNCHANGED <<request, response, outbox, generated, importVars, degreeVars, tplVars>>

\* One pass of the loop of _send_single_email in task k: send_email returns
\* (the task returns) or raises (the task raises after the last permitted
\* attempt, else sleeps and goes on with the next attempt).
SendAttempt(k) ==
    /\ tasks[k].pc = "running"
    /\ \E ok \in BOOLEAN :
          tasks' = [tasks EXCEPT ![k] =
                      [pc |-> IF ok THEN "returned"
                              ELSE IF tasks[k].attempt = max_retries(dispatch.retry_failed_emails) - 1
                                   THEN "raised" ELSE "running",
                       attempt |-> IF ok THEN tasks[k].attempt ELSE tasks[k].attempt + 1,
                       log |-> Append(tasks[k].log, ok)]]
    /\ UNCHANGED <<dispatch, request, response, outbox, generated, importVars, degreeVars, tplVars>>

\* gather has returned: the responses of the sub-batch are counted and the
\* loop moves on by batch_size.
ProcessBatchResponses ==
    /\ dispatch.pc = "gather"
    /\ \A k \in BatchResults : Finished(tasks[k])
    /\ dispatch' = [dispatch EXCEPT
          !.successful_sends = @ + Cardinality({k \in BatchResults : tasks[k].pc = "returned"}),
          !.failed_sends = @ + Cardinality({k \in BatchResults : tasks[k].pc = "raised"}),
          !.i = @ + batch_size(dispatch),
          !.pc = "loop"]
    /\ UNCHANGED <<tasks, request, response, outbox, generated, importVars, degreeVars, tplVars>>

\* The loop is over: email_sending_summary = EmailSendingSummary(...).
SummariseDispatch ==
    /\ dispatch.pc = "loop"
    /\ dispatch.i >= dispatch.total_attempts
    /\ dispatch' = [dispatch EXCEPT !.pc = "done"]
    /\ UNCHANGED <<tasks, request, response, outbox, generated, importVars, degreeVars, tplVars>>

(***************************************************************************)
(* CSV texts drawn by the import specification.                            *)
(***************************************************************************)
AccountNameOf(cid) == IF cid = "C1" THEN "Acme" ELSE "Bolt"
EmailOf(cid) == IF cid = "C1" THEN "ap@c1.test" ELSE "ap@c2.test"

Aged3160 == <<0, 100000, 0, 0, 0>>
AgedOver120 == <<0, 0, 0, 0, 100000>>
NoBuckets == <<0, 0, 0, 0, 0>>

\* Two rows that file the same invoice under different buckets, a row
\* whose buckets do not add up to its outstanding amount, a row with a
\* sub-cent amount, a second client claiming an invoice number of the
\* first under another invoice date, an amount no column holds, a cell that is not a number, a row
\* whose outstanding amount exceeds its invoice amount, and a client
\* under another name and without an email address.
CoreRows ==
    {RawRow("C1", "Acme", "ap@c1.test", "INV-1", 1, 100000, 100000, Aged3160),
     RawRow("C1", "Acme", "ap@c1.test", "INV-1", 1, 100000, 100000, AgedOver120),
     RawRow("C1", "Acme", "ap@c1.test", "INV-1", 1, 100000, 100000, NoBuckets),
     RawRow("C1", "Acme", "ap@c1.test", "INV-2", 1, 100000, 50004, <<50004, 0, 0, 0, 0>>),
     RawRow("C2", "Bolt", "ap@c2.test", "INV-2", 2, 100000, 100000, Aged3160),
     RawRow("C2", "Bolt", "ap@c2.test", "INV-1", 1, NumericOverflow, 100000, Aged3160),
     RawRow("C2", "Bolt", "ap@c2.test", "INV-2", 1, Malformed, 100000, Aged3160),
     RawRow("C1", "Acme", "ap@c1.test", "INV-1", 1, 50000, 100000, Aged3160),
     RawRow("C2", "Bolt Ltd", NoEmail, "INV-2", 1, 100000, 100000, AgedOver120)}

Texts(rows) == UNION {[1..n -> rows] : n \in 0..MaxRows}

ImportInit ==
    /\ accounts = {}
    /\ contacts = {}
    /\ invoices = {}
    /\ snapshots = <<>>
    /\ today = 1
    /\ lastCsv = <<>>
    /\ lastResult = NoResult
    /\ lastDay = 1
    /\ lastError = "none"
    /\ lastRaised = FALSE
    /\ importCount = 0

DegreeIdle ==
    /\ aging_snapshots = <<>>
    /\ degree_info = NoInfo

BatchIdle ==
    /\ request = [contact_ready_clients |-> <<>>, preview_only |-> TRUE, send_emails |-> FALSE,
                  retry_failed_emails |-> FALSE]
    /\ response = NoResponse
    /\ outbox = <<>>
    /\ generated = NotGenerated
    /\ dispatch = NoDispatch
    /\ tasks = <<>>

TemplatesIdle ==
    /\ templates = {}
    /\ tplLast = NoRequest
    /\ sessions = [s \in Sessions |-> IdleSession]
    /\ started = 0

Init == ImportInit /\ DegreeIdle /\ BatchIdle /\ TemplatesIdle

ImportCsv == \E text \in Texts(CoreRows) : import_csv_data(text)

Next == ImportCsv \/ NextDay

vars == <<importVars, degreeVars, batchVars, tplVars>>

Spec == Init /\ [][Next]_vars

(***************************************************************************)
(* Specification of the Degree Calculator: every list of at most MaxSnaps  *)
(* snapshots, each bucket either empty or holding its amount.              *)
(***************************************************************************)
BucketAmounts == <<25000, 100000, 75000, 30000, 50000>>

SnapshotInputs ==
    {[invoice_number |-> inv, invoice_date |-> 1, snapshot_date |-> 1,
      b |-> [i \in 1..5 |-> IF i \in filled THEN BucketAmounts[i] ELSE 0]] :
        inv \in AllInvoiceNumbers, filled \in SUBSET (1..5)}

DegreeInit ==
    /\ ImportInit /\ BatchIdle /\ TemplatesIdle
    /\ aging_snapshots \in UNION {[1..n -> SnapshotInputs] : n \in 0..MaxSnaps}
    /\ degree_info = NoInfo

DegreeNext == CalculateDegree

DegreeSpec == DegreeInit /\ [][DegreeNext]_vars

(***************************************************************************)
(* Specification of the batch orchestrator: requests of at most MaxClients *)
(* clients, against a template store with or without an active             *)
(* ESCALATION_LEVEL_1 template.                                            *)
(***************************************************************************)
Client(cid, name, email, dnc, snaps) ==
    [client_id |-> cid, account_name |-> name, email_address |-> email,
     invoice_aging_snapshots |-> snaps,
     total_outstanding_across_invoices |-> BucketTotalOf(snaps),
     dnc_status |-> dnc]

Summary(inv, b) ==
    [invoice_number |-> inv, invoice_date |-> 1, snapshot_date |-> 1, b |-> b]

\* Two clients due for escalation, and one client for each way of being
\* left out, among them clients that meet several conditions at once.
ClientPool ==
    {Client("C1", "Acme", "ap@c1.test", FALSE, <<Summary("INV-1", Aged3160)>>),
     Client("C2", "Bolt", "ap@c2.test", FALSE,
            <<Summary("INV-2", AgedOver120), Summary("INV-3", <<25000, 0, 0, 0, 0>>)>>),
     Client("C3", "Acme", "ap@c3.test", TRUE, <<Summary("INV-4", Aged3160)>>),
     Client("C4", "Dyn", NoEmail, TRUE, <<>>),
     Client("C5", "Eon", "  ", FALSE, <<>>),
     Client("C6", "Fox", "ap@c6.test", FALSE, <<>>),
     Client("C7", "Gum", "ap@c7.test", FALSE, <<Summary("INV-5", <<25000, 0, 0, 0, 0>>)>>)}

Requests ==
    {[contact_ready_clients |-> c, preview_only |-> p, send_emails |-> e,
      retry_failed_emails |-> r] :
        c \in UNION {[1..n -> ClientPool] : n \in 1..MaxClients},
        p \in BOOLEAN, e \in BOOLEAN, r \in BOOLEAN}

BatchInit ==
    /\ ImportInit /\ DegreeIdle /\ BatchIdle
    /\ templates \in {{}, {EmailTemplate("ESCALATION_LEVEL_1", 1, "reminder", TRUE)}}
    /\ tplLast = NoRequest
    /\ sessions = [s \in Sessions |-> IdleSession]
    /\ started = 0

\* A call reads the template store and nothing a call before it left
\* behind, so a behaviour makes one call.
ProcessEscalationBatch ==
    /\ response = NoResponse
    /\ \E req \in Requests : process_escalation_batch(req)

BatchNext == ProcessEscalationBatch

BatchSpec == BatchInit /\ [][BatchNext]_vars

(***************************************************************************)
(* Specification of the template service, one request after another.       *)
(***************************************************************************)
CreateTemplate ==
    \E identifier \in TemplateIds, data \in TemplateData : create_template(identifier, data)

UpdateTemplate ==
    \E identifier \in TemplateIds, data \in TemplateData : update_template(identifier, data)

ActivateVersion ==
    \E identifier \in TemplateIds, version \in 1..MaxVersion :
        activate_version(identifier, version)

DeleteTemplate == \E identifier \in TemplateIds : delete_template(identifier)

TemplateNext == CreateTemplate \/ UpdateTemplate \/ ActivateVersion \/ DeleteTemplate

TemplateSpec == Init /\ [][TemplateNext]_vars

(***************************************************************************)
(* Specification of the template service with MaxSessions sessions, each   *)
(* request in a transaction of its own.                                    *)
(***************************************************************************)
Begin == \E s \in Sessions : TxBegin(s)
Validate == \E s \in Sessions : TxValidate(s)
GetLatest == \E s \in Sessions : TxGetLatest(s)
GetTarget == \E s \in Sessions : TxGetTarget(s)
DeactivateBegin == \E s \in Sessions : TxDeactivateBegin(s)
DeactivateFinish == \E s \in Sessions : TxDeactivateFinish(s)
NextVersion == \E s \in Sessions : TxNextVersion(s)
Insert == \E s \in Sessions : TxInsert(s)
SetActiveRow == \E s \in Sessions : TxSetActive(s)
Commit == \E s \in Sessions : TxCommit(s)

ConcurrentNext ==
    \/ Begin \/ Validate \/ GetLatest \/ GetTarget \/ DeactivateBegin
    \/ DeactivateFinish \/ NextVersion \/ Insert \/ SetActiveRow \/ Commit

ConcurrentSpec == Init /\ [][ConcurrentNext]_vars

(***************************************************************************)
(* Specification of the email dispatch: up to MaxEmails results with each  *)
(* requested batch size and retry setting, and one dispatch of             *)
(* SendCap + 1 results without retries, where the cap decides the size of  *)
(* the sub-batches.                                                        *)
(***************************************************************************)
DispatchInputs ==
    {DispatchStart(n, size, retry) :
        n \in 1..MaxEmails, size \in (1..MaxEmails) \cup {MaxBatchSize}, retry \in BOOLEAN}
    \cup {DispatchStart(SendCap + 1, MaxBatchSize, FALSE)}

SendInit ==
    /\ ImportInit /\ DegreeIdle /\ TemplatesIdle
    /\ request = [contact_ready_clients |-> <<>>, preview_only |-> FALSE, send_emails |-> TRUE,
                  retry_failed_emails |-> FALSE]
    /\ response = NoResponse
    /\ outbox = <<>>
    /\ generated = NotGenerated
    /\ dispatch \in DispatchInputs
    /\ tasks = [k \in 1..dispatch.total_attempts |-> PendingTask]

SendNext ==
    \/ GatherSubBatch
    \/ \E k \in 1..Len(tasks) : SendAttempt(k)
    \/ ProcessBatchResponses
    \/ SummariseDispatch

SendSpec == SendInit /\ [][SendNext]_vars

(***************************************************************************)
(* Properties of import_csv_data                                           *)
(***************************************************************************)
\* This step is a call of import_csv_data.
ImportStep == importCount' = importCount + 1

\* The snapshots this step added to the store.
AddedSnapshots == {k \in 1..Len(snapshots') : k > Len(snapshots)}

BucketSumOff(r) == Abs(SumSeq(r.b) - r.total_outstanding) > Tolerance

\* C1: importing the same CSV text twice in a row on the same day, the first
\* run having committed, creates no Invoice and no InvoiceAgingSnapshot on the
\* second run, and the second run returns no contact-ready client.
C1_ReimportCreatesNothing ==
    [][(/\ ImportStep /\ importCount >= 1 /\ lastError = "none"
        /\ lastCsv' = lastCsv /\ lastDay' = lastDay)
          => /\ {i.invoice_number : i \in invoices'} = {i.invoice_number : i \in invoices}
             /\ Len(snapshots') = Len(snapshots)
             /\ lastResult'.contact_ready_clients = <<>>]_vars

\* C2: a row for an invoice that has snapshots adds exactly one snapshot,
\* leaving the others as they are, when its buckets differ from those of the
\* snapshot created last for the invoice, and adds none when they are equal
\* (stated for texts of one accepted row).
C2_ComparesWithLastCreated ==
    [][(/\ ImportStep
        /\ Len(lastCsv') = 1
        /\ lastResult'.successful_rows = 1
        /\ SnapshotsOf(snapshots, lastCsv'[1].invoice_number) # {})
          => LET row == lastCsv'[1]
                 mine == SnapshotsOf(snapshots, row.invoice_number)
                 last == CHOOSE k \in mine : \A j \in mine : j <= k
             IN IF _aging_values_changed(snapshots[last], row.b)
                THEN snapshots' = Append(snapshots,
                                         [invoice_id |-> row.invoice_number,
                                          snapshot_date |-> today,
                                          b |-> ColumnsOf(row.b)])
                ELSE snapshots' = snapshots]_vars

\* C3: every snapshot an import creates comes from a row whose five buckets
\* add up to the row's total_outstanding within 0.01, and a row whose buckets
\* are further off is a row error.
C3_BucketSumWithinTolerance ==
    [][(ImportStep /\ lastError' = "none")
          => LET rows == ParseCsvContent(lastCsv')
             IN /\ \A k \in AddedSnapshots :
                      \E n \in 1..Len(rows) :
                          /\ rows[n].invoice_number = snapshots'[k].invoice_id
                          /\ ColumnsOf(rows[n].b) = snapshots'[k].b
                          /\ ~BucketSumOff(rows[n])
                /\ \A n \in 1..Len(rows) :
                      BucketSumOff(rows[n]) =>
                          \E e \in 1..Len(lastResult'.errors) : lastResult'.errors[e] = n]_vars

\* The row numbers the result of this step reports as errors.
FailedRows == {lastResult'.errors[e] : e \in 1..Len(lastResult'.errors)}

\* The import of this step got past parsing and committed.
Committed == ImportStep /\ lastError' = "none"

\* C12: a row that fails loses only its own writes: every row of the batch is
\* either counted as successful or recorded as one row error, and the account
\* and the invoice of every successful row are in the store after the commit.
C12_RowFailureKeepsOtherRows ==
    [][Committed
          => LET rows == ParseCsvContent(lastCsv')
             IN /\ lastResult'.successful_rows + Len(lastResult'.errors) = Len(rows)
                /\ Cardinality(FailedRows) = Len(lastResult'.errors)
                /\ \A n \in (1..Len(rows)) \ FailedRows :
                      /\ \E a \in accounts' : a.client_id = rows[n].client_id
                      /\ \E i \in invoices' : i.invoice_number = rows[n].invoice_number]_vars

\* C13: when parsing the CSV text or the final commit raises, import_csv_data
\* returns a result with success = false, total_rows = 0, failed_rows = 1 and
\* one error with row_number 0, and the store is as it was before the call.
C13_ImportFailureIsReturned ==
    [][(ImportStep /\ lastError' # "none")
          => /\ ~lastRaised'
             /\ ~lastResult'.success
             /\ lastResult'.total_rows = 0
             /\ lastResult'.failed_rows = 1
             /\ lastResult'.errors = <<0>>
             /\ UNCHANGED storeVars]_vars

ExceedsAmount(r) == r.total_outstanding > r.invoice_amount

\* The rows of the text without those whose outstanding amount exceeds the
\* invoice amount.
WithoutExceeding(text) ==
    LET Keep(r) == ~ExceedsAmount(r)
    IN SelectSeq(text, Keep)

\* The stores an import of `text` on the store before this step can commit.
CommittedStores(text) ==
    {<<fin.accounts, fin.contacts, CommitInvoices(fin.invoices), CommitSnapshots(fin.snapshots)>> :
        fin \in ProcessRows(NewSession(accounts, contacts, invoices, snapshots),
                            ParseCsvContent(text), 1, today)}

\* C17: after every import each stored Invoice, created or updated, has
\* total_outstanding <= invoice_amount; every row with total_outstanding >
\* invoice_amount is reported as a row error and changes no record: the
\* import leaves the store as an import of the text without such rows can.
C17_OutstandingWithinAmount ==
    [][ImportStep =>
        /\ \A i \in invoices' : i.total_outstanding <= i.invoice_amount
        /\ Committed =>
              /\ \A k \in 1..Len(lastCsv') : ExceedsAmount(lastCsv'[k]) => k \in FailedRows
              /\ <<accounts', contacts', invoices', snapshots'>>
                    \in CommittedStores(WithoutExceeding(lastCsv'))]_vars

\* An import of an accepted row and a row whose outstanding amount exceeds
\* its invoice amount has committed: the invoice of the first is stored.
C17_Witness ==
    /\ lastError = "none"
    /\ \E k \in 1..Len(lastCsv) : ExceedsAmount(lastCsv[k])
    /\ lastResult.successful_rows = 1
    /\ lastResult.failed_rows = 1
    /\ invoices # {}

\* Only the 0-30 bucket is nonzero.
FreshOnly(b) == b[1] > 0 /\ \A i \in 2..5 : b[i] = 0

\* No contact of the account carries an email address.
NoContactEmail(cid) == \A c \in contacts' : c.account_id = cid => c.email = NoEmail

C18_WitnessSingleRow ==
    /\ lastError = "none"
    /\ Len(lastCsv) = 1
    /\ FreshOnly(lastCsv[1].b)
    /\ Len(lastResult.contact_ready_clients) = 1
    /\ lastResult.contact_ready_clients[1].dnc_status

\* An import returned a client without an email address and with aged
\* snapshots only.
C18_WitnessNoEmail ==
    /\ lastError = "none"
    /\ \E k \in 1..Len(lastResult.contact_ready_clients) :
          LET e == lastResult.contact_ready_clients[k]
          IN /\ e.email_address = NoEmail
             /\ e.dnc_status
             /\ \A j \in 1..Len(e.invoice_aging_snapshots) : ~FreshOnly(e.invoice_aging_snapshots[j].b)

\* The account a stored snapshot belongs to: the owner of its invoice.
OwnerOf(snap) == {i.account_id : i \in {v \in invoices' : v.invoice_number = snap.invoice_id}}

\* The snapshots this step persisted for the account.
PersistedFor(cid) == {k \in AddedSnapshots : cid \in OwnerOf(snapshots'[k])}

\* The summary a client lists and a stored snapshot show the same invoice,
\* date and bucket amounts.
Shows(summary, snap) ==
    /\ summary.invoice_number = snap.invoice_id
    /\ summary.snapshot_date = snap.snapshot_date
    /\ ColumnsOf(summary.b) = snap.b

\* C19: the contact_ready_clients an import returns hold one entry for each
\* account for which the import persisted a new snapshot and none for another
\* account; an entry lists the snapshots persisted for its account in this
\* import, each once, and totals the outstanding amounts of their rows.
C19_ClientsMatchPersistedSnapshots ==
    [][Committed =>
        LET crc == lastResult'.contact_ready_clients
            rows == ParseCsvContent(lastCsv')
        IN /\ \A j, k \in 1..Len(crc) : crc[j].client_id = crc[k].client_id => j = k
           /\ {crc[k].client_id : k \in 1..Len(crc)}
                 = {a.client_id : a \in {a \in accounts' : PersistedFor(a.client_id) # {}}}
           /\ \A k \in 1..Len(crc) :
                 LET listed == crc[k].invoice_aging_snapshots
                     mine == PersistedFor(crc[k].client_id)
                 IN /\ Len(listed) = Cardinality(mine)
                    /\ \A n \in mine : \E j \in 1..Len(listed) : Shows(listed[j], snapshots'[n])
                    /\ \A j \in 1..Len(listed) : \E n \in mine : Shows(listed[j], snapshots'[n])
                    /\ \E pick \in [1..Len(listed) -> 1..Len(rows)] :
                          /\ \A i, j \in 1..Len(listed) : pick[i] = pick[j] => i = j
                          /\ \A j \in 1..Len(listed) :
                                /\ rows[pick[j]].invoice_number = listed[j].invoice_number
                                /\ rows[pick[j]].b = listed[j].b
                          /\ crc[k].total_outstanding_across_invoices
                                = SumSeq([j \in 1..Len(listed) |-> rows[pick[j]].total_outstanding])]_vars

\* C19, for imports of rows that name the owner of their invoice: an entry
\* lists only snapshots the import persisted.
C19_ListedSnapshotsPersisted ==
    [][(/\ Committed
        /\ \A n \in 1..Len(lastCsv') : \A i \in invoices \cup invoices' :
              i.invoice_number = lastCsv'[n].invoice_number => i.account_id = lastCsv'[n].client_id)
          => \A k \in 1..Len(lastResult'.contact_ready_clients) :
                \A j \in 1..Len(lastResult'.contact_ready_clients[k].invoice_aging_snapshots) :
                   \E n \in AddedSnapshots :
                      Shows(lastResult'.contact_ready_clients[k].invoice_aging_snapshots[j], snapshots'[n])]_vars

\* The sessions the row loop can end in for `text` on the store before this step.
EndSessions(text) ==
    ProcessRows(NewSession(accounts, contacts, invoices, snapshots),
                ParseCsvContent(text), 1, today)

StoredAs(num) == {i \in invoices : i.invoice_number = num}

\* C23: a row whose invoice_number is stored writes the invoice exactly when
\* its invoice_amount or total_outstanding differs from the stored value, and
\* then stores the row's amounts; it counts under invoices_updated in the
\* first case and under invoices_found in the other, never under both; the
\* owner and the invoice_date of the invoice stay as they are, also when the
\* row names another client_id; no other invoice changes (stated for texts of
\* one accepted row).
C23_InvoiceWrittenOnlyOnDifference ==
    [][(/\ Committed
        /\ Len(lastCsv') = 1
        /\ FailedRows = {}
        /\ StoredAs(lastCsv'[1].invoice_number) # {})
          => LET row == lastCsv'[1]
                 old == CHOOSE i \in StoredAs(row.invoice_number) : TRUE
                 differs == \/ row.invoice_amount # old.invoice_amount
                            \/ row.total_outstanding # old.total_outstanding
                 written == [old EXCEPT !.invoice_amount = ToColumn(row.invoice_amount),
                                        !.total_outstanding = ToColumn(row.total_outstanding)]
             IN /\ invoices' = (invoices \ {old}) \cup {IF differs THEN written ELSE old}
                /\ lastResult'.invoices_updated = (IF differs THEN 1 ELSE 0)
                /\ lastResult'.invoices_created = 0
                /\ \A fin \in EndSessions(lastCsv') :
                      /\ fin.invoices_updated = (IF differs THEN 1 ELSE 0)
                      /\ fin.invoices_found = (IF differs THEN 0 ELSE 1)]_vars

\* An import of one row has updated an invoice that another client owns and
\* that carries another invoice date.
C23_Witness ==
    /\ lastError = "none"
    /\ Len(lastCsv) = 1
    /\ lastResult.successful_rows = 1
    /\ lastResult.invoices_updated = 1
    /\ \E i \in invoices :
          /\ i.invoice_number = lastCsv[1].invoice_number
          /\ i.account_id # lastCsv[1].client_id
          /\ i.invoice_date # lastCsv[1].invoice_date
          /\ i.total_outstanding = ToColumn(lastCsv[1].total_outstanding)

\* An import of one row has found its invoice stored with the row's amounts.
C23_WitnessFound ==
    /\ lastError = "none"
    /\ Len(lastCsv) = 1
    /\ lastResult.successful_rows = 1
    /\ lastResult.invoices_updated = 0
    /\ lastResult.invoices_created = 0

\* The rows of the text, by position, that name the client and did not fail.
ProcessedFor(cid) ==
    {n \in 1..Len(lastCsv') : lastCsv'[n].client_id = cid /\ n \notin FailedRows}

\* C24: the store never holds two Accounts with one client_id; an import
\* leaves every stored Account and Contact as it is, whatever name and email
\* its rows carry; an Account it creates comes with exactly one Contact and
\* carries the name and the email of the first row of the text that names its
\* client_id and was processed successfully.
C24_OneAccountPerClient ==
    [][ImportStep =>
        /\ \A a, b \in accounts' : a.client_id = b.client_id => a = b
        /\ accounts \subseteq accounts'
        /\ contacts \subseteq contacts'
        /\ \A a \in accounts' \ accounts :
              /\ \A b \in accounts : b.client_id # a.client_id
              /\ Cardinality({c \in contacts' : c.account_id = a.client_id}) = 1
              /\ ProcessedFor(a.client_id) # {}
              /\ LET first == CHOOSE n \in ProcessedFor(a.client_id) :
                                  \A m \in ProcessedFor(a.client_id) : n <= m
                 IN /\ a.account_name = lastCsv'[first].account_name
                    /\ \A c \in contacts' : c.account_id = a.client_id
                                                => c.email = lastCsv'[first].email
        /\ \A c \in contacts' \ contacts :
              \E a \in accounts' \ accounts : c.account_id = a.client_id]_vars

\* A stored account has since been named by a row carrying another name and
\* another email, in a later import that committed that row.
C24_Witness ==
    /\ lastError = "none"
    /\ importCount = 2
    /\ \E n \in 1..Len(lastCsv) : \E a \in accounts :
          /\ lastCsv[n].client_id = a.client_id
          /\ lastCsv[n].account_name # a.account_name
          /\ n \notin {lastResult.errors[e] : e \in 1..Len(lastResult.errors)}
          /\ lastResult.accounts_created = 0
          /\ \E c \in contacts : c.account_id = a.client_id /\ c.email # lastCsv[n].email

\* C28: every snapshot a returned client lists belongs to an invoice that the
\* store holds under that client's account.
C28_ListedSnapshotsOwnedByClient ==
    [][Committed =>
        \A k \in 1..Len(lastResult'.contact_ready_clients) :
            LET e == lastResult'.contact_ready_clients[k]
            IN \A j \in 1..Len(e.invoice_aging_snapshots) :
                  \E i \in invoices' :
                     /\ i.invoice_number = e.invoice_aging_snapshots[j].invoice_number
                     /\ i.account_id = e.client_id]_vars

\* C29: the report of a committed import matches the store: accounts_created,
\* invoices_created and aging_snapshots_created are the numbers of accounts,
\* invoices and snapshots the step added, invoices_updated covers every stored
\* invoice the step changed, and the account and the invoice of every row
\* counted in successful_rows are in the store.
C29_ReportMatchesStore ==
    [][Committed =>
        LET rows == ParseCsvContent(lastCsv')
            before == {i.invoice_number : i \in invoices}
        IN /\ lastResult'.accounts_created = Cardinality(accounts') - Cardinality(accounts)
           /\ lastResult'.invoices_created
                 = Cardinality({i \in invoices' : i.invoice_number \notin before})
           /\ Cardinality({i \in invoices : i \notin invoices'}) <= lastResult'.invoices_updated
           /\ lastResult'.aging_snapshots_created = Cardinality(AddedSnapshots)
           /\ lastResult'.successful_rows = Cardinality((1..Len(rows)) \ FailedRows)
           /\ \A n \in (1..Len(rows)) \ FailedRows :
                 /\ \E a \in accounts' : a.client_id = rows[n].client_id
                 /\ \E i \in invoices' : i.invoice_number = rows[n].invoice_number]_vars

\* C29, for imports in which no row failed: the same statement.
C29_ReportMatchesStoreWithoutRowErrors ==
    [][(Committed /\ FailedRows = {}) =>
        LET rows == ParseCsvContent(lastCsv')
            before == {i.invoice_number : i \in invoices}
        IN /\ lastResult'.accounts_created = Cardinality(accounts') - Cardinality(accounts)
           /\ lastResult'.invoices_created
                 = Cardinality({i \in invoices' : i.invoice_number \notin before})
           /\ Cardinality({i \in invoices : i \notin invoices'}) <= lastResult'.invoices_updated
           /\ lastResult'.aging_snapshots_created = Cardinality(AddedSnapshots)
           /\ lastResult'.successful_rows = Cardinality((1..Len(rows)) \ FailedRows)
           /\ \A n \in (1..Len(rows)) \ FailedRows :
                 /\ \E a \in accounts' : a.client_id = rows[n].client_id
                 /\ \E i \in invoices' : i.invoice_number = rows[n].invoice_number]_vars

(***************************************************************************)
(* Properties of _calculate_escalation_degree                              *)
(***************************************************************************)
Calculated == degree_info # NoInfo

Positions == 1..Len(aging_snapshots)

\* The per-snapshot degree as the degree table states it.
TableDegree(b) ==
    CASE b[4] > 0 \/ b[5] > 0 -> 3
      [] b[4] = 0 /\ b[5] = 0 /\ b[3] > 0 -> 2
      [] b[4] = 0 /\ b[5] = 0 /\ b[3] = 0 /\ b[2] > 0 -> 1
      [] OTHER -> 0

\* Positions of the snapshots whose own degree is above 0.
Escalating == {k \in Positions : TableDegree(aging_snapshots[k].b) > 0}

\* The subsequence of aging_snapshots at the positions in S.
RECURSIVE Restrict(_, _)
Restrict(k, S) ==
    IF k > Len(aging_snapshots) THEN <<>>
    ELSE (IF k \in S THEN <<aging_snapshots[k]>> ELSE <<>>) \o Restrict(k + 1, S)

InvoiceNumbers(s) == [k \in 1..Len(s) |-> s[k].invoice_number]

\* C4: for a non-empty list the returned degree is the maximum of the
\* per-snapshot degrees (3 if 91-120 or 120+ is positive, else 2 if 61-90
\* is, else 1 if 31-60 is, else 0); one snapshot with a positive 91-120 or
\* 120+ bucket forces degree 3.
C4_DegreeIsMaximum ==
    (Calculated /\ aging_snapshots # <<>>)
        => /\ \E k \in Positions : degree_info.degree = TableDegree(aging_snapshots[k].b)
           /\ \A k \in Positions : degree_info.degree >= TableDegree(aging_snapshots[k].b)
           /\ (\E k \in Positions : aging_snapshots[k].b[4] > 0 \/ aging_snapshots[k].b[5] > 0)
                 => degree_info.degree = 3

\* A degree-3 snapshot that also fills younger buckets, after a degree-1 one.
C4_Witness ==
    /\ Calculated
    /\ Len(aging_snapshots) = 2
    /\ TableDegree(aging_snapshots[1].b) = 1
    /\ aging_snapshots[2].b[5] > 0 /\ aging_snapshots[2].b[2] > 0 /\ aging_snapshots[2].b[3] > 0
    /\ degree_info.degree = 3

\* C5: qualifying_invoices lists, in order, exactly the snapshots whose own
\* degree is above 0, and total_amount is the sum of the five buckets of
\* exactly those; a degree-0 snapshot adds neither an entry nor an amount.
C5_QualifyingAreDegreePositive ==
    Calculated
        => /\ degree_info.qualifying_invoices = InvoiceNumbers(Restrict(1, Escalating))
           /\ Len(degree_info.qualifying_invoices) = Cardinality(Escalating)
           /\ degree_info.total_amount = BucketTotalOf(Restrict(1, Escalating))

\* A degree-0 snapshot with money in 0-30 beside an escalating one.
C5_Witness ==
    /\ Calculated
    /\ degree_info.degree > 0
    /\ \E k \in Positions : /\ TableDegree(aging_snapshots[k].b) = 0
                            /\ aging_snapshots[k].b[1] > 0
    /\ Len(degree_info.qualifying_invoices) = 1

\* Positions of the snapshots at the highest per-snapshot degree.
AtHighest ==
    {k \in Escalating : \A j \in Positions :
        TableDegree(aging_snapshots[j].b) <= TableDegree(aging_snapshots[k].b)}

MixedDegrees ==
    \E j, k \in Escalating : TableDegree(aging_snapshots[j].b) # TableDegree(aging_snapshots[k].b)

\* C6 as stated: with different nonzero per-snapshot degrees the result
\* carries the highest degree, lists only the invoices at that degree and
\* sums only those.
C6_OnlyHighestDegreeListed ==
    (Calculated /\ MixedDegrees)
        => /\ \A k \in AtHighest : degree_info.degree = TableDegree(aging_snapshots[k].b)
           /\ degree_info.qualifying_invoices = InvoiceNumbers(Restrict(1, AtHighest))
           /\ degree_info.total_amount = BucketTotalOf(Restrict(1, AtHighest))

\* C6: with different nonzero per-snapshot degrees the result carries the
\* highest degree, lists every invoice whose own degree is above 0 and sums
\* the buckets of all of them.
C6_EveryEscalatingInvoiceListed ==
    (Calculated /\ MixedDegrees)
        => /\ \A k \in AtHighest : degree_info.degree = TableDegree(aging_snapshots[k].b)
           /\ degree_info.qualifying_invoices = InvoiceNumbers(Restrict(1, Escalating))
           /\ degree_info.total_amount = BucketTotalOf(Restrict(1, Escalating))

\* 100 in 31-60 on one invoice, 50 in 120+ on another: degree 3, both
\* invoices listed, 150 in total.
C6_Witness ==
    /\ Calculated
    /\ Len(aging_snapshots) = 2
    /\ aging_snapshots[1].b = <<0, 100000, 0, 0, 0>>
    /\ aging_snapshots[2].b = <<0, 0, 0, 0, 50000>>
    /\ aging_snapshots[1].invoice_number # aging_snapshots[2].invoice_number
    /\ degree_info.degree = 3
    /\ Len(degree_info.qualifying_invoices) = 2
    /\ degree_info.total_amount = 150000

(***************************************************************************)
(* Properties of process_escalation_batch                                  *)
(***************************************************************************)
Responded == response # NoResponse

Inputs == request.contact_ready_clients

RECURSIVE SumOver(_, _)
SumOver(f, S) ==
    IF S = {} THEN 0
    ELSE LET r == CHOOSE q \in S : TRUE IN f[r] + SumOver(f, S \ {r})

\* The first condition, in the order dnc_status, no_email, no_invoices,
\* degree 0, that leaves a client out; "none" for a client due for escalation.
FirstReason(client) ==
    CASE client.dnc_status -> "dnc_status"
      [] ~client.dnc_status /\ BlankEmail(client.email_address) -> "no_email"
      [] /\ ~client.dnc_status /\ ~BlankEmail(client.email_address)
         /\ client.invoice_aging_snapshots = <<>> -> "no_invoices"
      [] /\ ~client.dnc_status /\ ~BlankEmail(client.email_address)
         /\ client.invoice_aging_snapshots # <<>>
         /\ \A k \in 1..Len(client.invoice_aging_snapshots) :
               TableDegree(client.invoice_aging_snapshots[k].b) = 0 -> "degree_0_no_escalation"
      [] OTHER -> "none"

\* C7: on every return path emails_generated plus the sum of the
\* skipped_reasons counts equals processed_count, the number of input clients.
C7_EveryClientAccountedOnce ==
    Responded
        => /\ response.processed_count = Len(Inputs)
           /\ response.emails_generated + SumOver(response.skipped_reasons, Reasons)
                 = response.processed_count

\* C8: no EscalationResult and no e-mail exists for a client that is on the
\* do-not-contact list, has no e-mail address, has no snapshots or has degree
\* 0, and the response counts each such client under the first of these
\* reasons that applies to it.
C8_LeftOutClientsCountedNotMailed ==
    Responded
        => /\ \A i \in 1..Len(response.escalation_results) :
                \E k \in 1..Len(Inputs) :
                    /\ Inputs[k].account_name = response.escalation_results[i].account
                    /\ FirstReason(Inputs[k]) = "none"
           /\ \A m \in 1..Len(outbox) :
                \E k \in 1..Len(Inputs) :
                    /\ Inputs[k].account_name = outbox[m].account
                    /\ FirstReason(Inputs[k]) = "none"
           /\ \A r \in Reasons :
                response.skipped_reasons[r]
                    = Cardinality({k \in 1..Len(Inputs) : FirstReason(Inputs[k]) = r})

\* The account degree of a client by the degree table: the highest degree of
\* its snapshots, 0 without snapshots.
AccountDegree(client) ==
    LET snaps == client.invoice_aging_snapshots
    IN IF snaps = <<>> THEN 0
       ELSE MaxOf({TableDegree(snaps[k].b) : k \in 1..Len(snaps)})

\* A surviving client of the request whose degree has no active template.
LacksTemplate ==
    \E k \in 1..Len(Inputs) :
        /\ FirstReason(Inputs[k]) = "none"
        /\ \A t \in templates :
              ~(t.is_active /\ t.identifier = TemplateUsed(AccountDegree(Inputs[k])))

\* C11: when the degree of some surviving client has no active template
\* ESCALATION_LEVEL_d, the batch returns success = false with an error, no
\* EscalationResult and no e-mail, also when templates of other degrees exist.
C11_MissingDegreeTemplateFailsBatch ==
    (Responded /\ LacksTemplate)
        => /\ ~response.success
           /\ response.errors # ""
           /\ response.escalation_results = <<>>
           /\ outbox = <<>>

\* The request asked for a preview or switched sending off.
NoSending == request.preview_only \/ ~request.send_emails

\* C14: with preview_only true or send_emails false the batch calls the
\* transport zero times, returns no email_sending_summary and no delivery
\* details, and every EscalationResult it returns has email_sent = false.
C14_NoSendWhenPreviewOrDisabled ==
    (Responded /\ NoSending)
        => /\ outbox = <<>>
           /\ response.email_sending_summary = NoSummary
           /\ response.email_sending_details = <<>>
           /\ \A i \in 1..Len(response.escalation_results) :
                 ~response.escalation_results[i].email_sent

\* A preview that generated two e-mails.
C14_Witness ==
    /\ Responded /\ NoSending
    /\ request.preview_only
    /\ Len(response.escalation_results) = 2

\* _send_escalation_emails was called and the response built from what it returned.
Dispatched == Responded /\ response.email_sending_summary # NoSummary

CallsFor(k) == {c \in 1..Len(outbox) : outbox[c].result = k}

\* C21: a dispatch is never aborted by a send that fails for good: the
\* transport is called for every generated email, before and after the
\* failed one; the result of an email whose calls all failed has email_sent =
\* false and an error string; and the batch response has success = true.
C21_SendFailureIsIsolated ==
    Dispatched =>
        /\ response.success
        /\ \A k \in 1..Len(response.escalation_results) :
              /\ CallsFor(k) # {}
              /\ (\A c \in CallsFor(k) : ~outbox[c].ok)
                    => /\ ~response.escalation_results[k].email_sent
                       /\ response.escalation_results[k].email_send_error # NoSendError

\* A dispatch of two emails: the first failed for good, the second was sent.
C21_Witness ==
    /\ Dispatched
    /\ Len(response.escalation_results) = 2
    /\ ~response.escalation_results[1].email_sent
    /\ response.escalation_results[2].email_sent
    /\ \A c \in CallsFor(1) : ~outbox[c].ok

\* C22: when the personalization call fails (no API key, a status other than
\* 200, a timeout, unparseable output) the batch response has success = false,
\* emails_generated = 0, no escalation result and an error string, and the
\* transport is not called.
C22_PersonalizationFailureFailsBatch ==
    (Responded /\ generated.raised \in AiFailures)
        => /\ ~response.success
           /\ response.emails_generated = 0
           /\ response.escalation_results = <<>>
           /\ response.errors # ""
           /\ response.email_sending_summary = NoSummary
           /\ outbox = <<>>

\* The personalization call timed out in a batch that asked for sending.
C22_Witness ==
    /\ Responded
    /\ generated.raised = "timeout"
    /\ SendingRequested(request)
    /\ ~response.success

\* C26: every send_email call is addressed to the email_address of an input
\* client that carries the account name the email is for; an address that
\* only the personalization output holds is never a recipient.
C26_RecipientIsInputAddress ==
    Responded =>
        \A c \in 1..Len(outbox) :
            \E k \in 1..Len(Inputs) :
                /\ Inputs[k].account_name = outbox[c].account
                /\ Inputs[k].email_address = outbox[c].to_email

\* C27: the escalation results can be assigned to input clients, no two to
\* the same client, each to a client of its account name whose degree and
\* template it carries; and no result is delivered more than once.
C27_OneResultPerClient ==
    Responded =>
        /\ \E f \in [1..Len(response.escalation_results) -> 1..Len(Inputs)] :
              /\ \A i, j \in 1..Len(response.escalation_results) : f[i] = f[j] => i = j
              /\ \A i \in 1..Len(response.escalation_results) :
                    LET result == response.escalation_results[i]
                        degree == _calculate_escalation_degree(
                                      Inputs[f[i]].invoice_aging_snapshots).degree
                    IN /\ Inputs[f[i]].account_name = result.account
                       /\ result.escalation_degree = degree
                       /\ result.template_used = TemplateUsed(degree)
        /\ \A k \in 1..Len(response.escalation_results) :
              Cardinality({c \in CallsFor(k) : outbox[c].ok}) <= 1

\* C30: after a dispatch email_sending_details holds one record per
\* EscalationResult, in the order of the results; successful_sends and
\* failed_sends add up to total_attempts, the number of results; and a result
\* has email_sent exactly when its record has.
C30_DetailsMatchResults ==
    Dispatched =>
        LET results == response.escalation_results
            details == response.email_sending_details
            summary == response.email_sending_summary
        IN /\ Len(details) = Len(results)
           /\ \A k \in 1..Len(results) :
                 /\ details[k].account_name = results[k].account
                 /\ details[k].email_address = results[k].email_address
                 /\ details[k].email_sent <=> results[k].email_sent
           /\ summary.total_attempts = Len(results)
           /\ summary.successful_sends + summary.failed_sends = summary.total_attempts
           /\ summary.successful_sends
                 = Cardinality({k \in 1..Len(results) : results[k].email_sent})

\* A dispatch of two emails, the first sent and the second failed.
C30_Witness ==
    /\ Dispatched
    /\ Len(response.escalation_results) = 2
    /\ response.escalation_results[1].email_sent
    /\ ~response.escalation_results[2].email_sent
    /\ response.escalation_results[1].account # response.escalation_results[2].account

(***************************************************************************)
(* Properties of the template service                                      *)
(***************************************************************************)
ActiveOf(identifier) == {t \in templates : t.identifier = identifier /\ t.is_active}

\* C9: after a successful create_template, update_template or
\* activate_version call, the calls running one after another, exactly one
\* version of the identifier is active, also when activate_version was given
\* the version that was active already.
C9_ExactlyOneActiveVersion ==
    (tplLast.ok /\ tplLast.op \in {"create_template", "update_template", "activate_version"})
        => Cardinality(ActiveOf(tplLast.identifier)) = 1

\* activate_version was given the active version of a template with
\* several versions, and that version is the active one afterwards.
C9_Witness ==
    /\ tplLast.ok
    /\ tplLast.op = "activate_version"
    /\ tplLast.previous_version = tplLast.version
    /\ Cardinality({t \in templates : t.identifier = tplLast.identifier}) >= 2
    /\ ActiveOf(tplLast.identifier)
          = {t \in templates : t.identifier = tplLast.identifier /\ t.version = tplLast.version}

\* C10: with the requests running concurrently, each in a transaction of
\* its own, every committed state of the store has at most one active
\* version for each identifier.
C10_AtMostOneActiveCommitted ==
    \A identifier \in TemplateIds : Cardinality(ActiveOf(identifier)) <= 1

\* C25: the versions of an identifier carry distinct numbers; a version
\* created for an identifier that has none is numbered 1; every other created
\* version is numbered one more than the highest version of the identifier,
\* whichever version is active; a call creates at most one version.
C25_VersionNumbersIncrease ==
    [][\A identifier \in TemplateIds :
          LET old == AllVersions(templates, identifier)
              new == AllVersions(templates', identifier)
          IN /\ \A t, u \in get_versions_by_identifier(templates', identifier) :
                    t.version = u.version => t = u
             /\ new \ old # {}
                   => /\ new \ old = {IF old = {} THEN 1 ELSE MaxOf(old) + 1}
                      /\ old \subseteq new]_vars

\* A version 3 has been created while the re-activated version 1 was the
\* active one.
C25_Witness ==
    /\ tplLast.ok
    /\ tplLast.op \in {"create_template", "update_template"}
    /\ tplLast.version = 3
    /\ tplLast.previous_version = 1
    /\ AllVersions(templates, tplLast.identifier) = {1, 2, 3}

(***************************************************************************)
(* Properties of the email dispatch                                        *)
(***************************************************************************)
Permitted == IF dispatch.retry_failed_emails THEN 3 ELSE 1

\* C15: the transport is called for an email at most 3 times when
\* retry_failed_emails is true and exactly once when it is false (never more
\* than once, and once by the time its task ends); every call before the last
\* one failed, so no call follows a successful one; a task that has returned
\* ends with a successful call; a task is a permanent failure only when all
\* the permitted calls were made and every one failed.
C15_RetryCountPerEmail ==
    \A k \in 1..Len(tasks) :
        LET t == tasks[k]
        IN /\ Len(t.log) <= Permitted
           /\ Finished(t) => Len(t.log) >= 1
           /\ \A a \in 1..Len(t.log) - 1 : ~t.log[a]
           /\ t.pc = "returned" => t.log[Len(t.log)]
           /\ t.pc = "raised" => /\ Len(t.log) = Permitted
                                 /\ \A a \in 1..Len(t.log) : ~t.log[a]

\* A finished dispatch with retries in which one email failed for good after
\* three calls, and another went through at its second call.
C15_Witness ==
    /\ dispatch.pc = "done"
    /\ dispatch.retry_failed_emails
    /\ \E j, k \in 1..Len(tasks) :
          /\ tasks[j].pc = "raised" /\ Len(tasks[j].log) = 3
          /\ tasks[k].pc = "returned" /\ Len(tasks[k].log) = 2

\* A finished dispatch without retries in which an email failed at its only call.
C15_WitnessNoRetry ==
    /\ dispatch.pc = "done"
    /\ ~dispatch.retry_failed_emails
    /\ \E k \in 1..Len(tasks) : tasks[k].pc = "raised" /\ Len(tasks[k].log) = 1

InFlight == {k \in 1..Len(tasks) : tasks[k].pc = "running"}

\* The sub-batch of the k-th email when the results are cut into slices of
\* min(email_batch_size, 10).
SubBatchOf(k) == (k - 1) \div (IF dispatch.email_batch_size < 10 THEN dispatch.email_batch_size ELSE 10)

RetriesPerformed == Cardinality({<<k, a>> \in (1..Len(tasks)) \X (2..3) : a <= Len(tasks[k].log)})

\* C20: the summary of a finished dispatch reports in retry_attempts the number
\* of send attempts beyond the first, summed over all emails.
C20_RetryAttemptsReported ==
    dispatch.pc = "done" => dispatch.retry_attempts = RetriesPerformed

\* C21, on the steps of the dispatch: when the dispatch ends the transport has
\* been called for every email, whatever failed for good before it in the
\* same or in an earlier sub-batch, and every email is counted once.
C21_EveryEmailAttempted ==
    dispatch.pc = "done" =>
        /\ \A k \in 1..Len(tasks) : Finished(tasks[k]) /\ Len(tasks[k].log) >= 1
        /\ dispatch.failed_sends = Cardinality({k \in 1..Len(tasks) : tasks[k].pc = "raised"})

\* A finished dispatch in sub-batches of one: the first email failed for
\* good, the last one was sent.
C21_WitnessLaterSubBatch ==
    /\ dispatch.pc = "done"
    /\ dispatch.email_batch_size = 1
    /\ Len(tasks) >= 2
    /\ tasks[1].pc = "raised"
    /\ tasks[Len(tasks)].pc = "returned"

====
